---- MODULE Spec2Model ----

(***************************************************************************)
(* Model of the rule-based record processing pipeline: FunctionalUtils,    *)
(* BaseRule and the five rules, RuleRegistry and DataProcessor.            *)
(*                                                                         *)
(* JavaScript values are tagged records [t, v]:                            *)
(*   undefined, null, boolean, number, string, function,                   *)
(*   array  (v = sequence of values),                                      *)
(*   object (v = sequence of <<key, value>> pairs in insertion order, the  *)
(*           order Object.entries / Object.keys / for-in enumerate).       *)
(* A function that can throw returns [ok |-> TRUE, val |-> ...] or         *)
(* [ok |-> FALSE, err |-> message], the message of the Error thrown.       *)
(***************************************************************************)
EXTENDS Integers, Sequences, FiniteSets, TLC

VARIABLES
    rules,        \* RuleRegistry: the Map type -> rule instance
    pc,           \* position of the running processData call: "idle" | "executing"
    op,           \* the current / last DataProcessor call: its function's name
    data,         \* argument data of that call
    condition,    \* argument condition of that call
    result,       \* processData's local `result`
    ruleEntries,  \* the sorted rule entries the for-loop has not visited yet
    appliedRules, \* processData's local `appliedRules`
    executeLog,   \* the calls of rule.execute made so far by the current call
    ret,          \* value returned by the last DataProcessor call
    call,         \* arguments of the direct rule calls (rule-level specifications)
    out,          \* results of the direct rule calls made so far
    engine,       \* the QuestionnaireEngine instance: its fields
    finder,       \* the AsteroidFinderEngine instance and its running search
    analyzer,     \* the PathAnalyzerEngine instance: its fields
    app           \* the AsteroidFinderApp instance: its fields

vars == <<rules, pc, op, data, condition, result, ruleEntries, appliedRules,
          executeLog, ret, call, out, engine, finder, analyzer,
          app>>

pipelineVars == <<rules, pc, op, data, condition, result, ruleEntries,
                  appliedRules, executeLog, ret>>

callVars == <<call, out>>

engineVars == <<engine, finder, analyzer, app>>

(***************************************************************************)
(* Values                                                                  *)
(***************************************************************************)
Undefined == [t |-> "undefined", v |-> "undefined"]
Null == [t |-> "null", v |-> "null"]
Bool(b) == [t |-> "boolean", v |-> b]
\* A number n, or n + 1/2 when frac is TRUE (a non-integer).
Num(n) == [t |-> "number", v |-> n, frac |-> FALSE]
NumFrac(n) == [t |-> "number", v |-> n, frac |-> TRUE]
Str(s) == [t |-> "string", v |-> s]
Fn(name) == [t |-> "function", v |-> name]
Arr(items) == [t |-> "array", v |-> items]
Obj(entries) == [t |-> "object", v |-> entries]

Ok(x) == [ok |-> TRUE, val |-> x]
Throw(msg) == [ok |-> FALSE, err |-> msg]

\* typeof x
TypeOf(x) ==
    IF x.t \in {"array", "object", "null"} THEN "object" ELSE x.t

\* Array.isArray(x)
IsArray(x) == x.t = "array"

\* ToBoolean(x): what `!x`, `x && ...` and `x || ...` test
Truthy(x) ==
    CASE x.t \in {"undefined", "null"} -> FALSE
      [] x.t = "boolean" -> x.v
      [] x.t = "number" -> ~(x.v = 0 /\ ~x.frac)
      [] x.t = "string" -> x.v # ""
      [] OTHER -> TRUE

\* x == null  (null or undefined)
IsNullish(x) == x.t \in {"undefined", "null"}

\* Number.isInteger(x)
IsInteger(x) == x.t = "number" /\ ~x.frac

\* Object.keys(o) of an object
Keys(o) == [i \in 1..Len(o.v) |-> o.v[i][1]]

\* o.hasOwnProperty(key) resolved on Object.prototype
HasOwn(o, key) == \E i \in 1..Len(o.v) : o.v[i][1] = key

\* Object.prototype.hasOwnProperty, found through the prototype chain
ProtoHasOwnProperty == Fn("Object.prototype.hasOwnProperty")

\* x[key] for a value x that is not null or undefined: an own property of an
\* object, the inherited hasOwnProperty method, the length of an array.
\* (No key of the model names another inherited property or an array index.)
GetProp(x, key) ==
    CASE x.t = "object" ->
            IF HasOwn(x, key)
            THEN x.v[CHOOSE i \in 1..Len(x.v) : x.v[i][1] = key][2]
            ELSE IF key = "hasOwnProperty" THEN ProtoHasOwnProperty ELSE Undefined
      [] x.t = "array" ->
            IF key = "length" THEN Num(Len(x.v)) ELSE Undefined
      [] OTHER -> Undefined

\* o[key] = value on an object: replaces the value of an own key in place,
\* appends a new key at the end of the insertion order.
SetProp(o, key, value) ==
    IF HasOwn(o, key)
    THEN Obj([i \in 1..Len(o.v) |->
                IF o.v[i][1] = key THEN <<key, value>> ELSE o.v[i]])
    ELSE Obj(Append(o.v, <<key, value>>))

\* delete o[key]
DeleteProp(o, key) ==
    Obj(SelectSeq(o.v, LAMBDA e : e[1] # key))

(***************************************************************************)
(* FunctionalUtils                                                         *)
(***************************************************************************)
\* The first index of a sequence of results that is a throw, 0 when none is.
FirstThrow(rs) ==
    IF \E i \in 1..Len(rs) : ~rs[i].ok
    THEN CHOOSE i \in 1..Len(rs) : ~rs[i].ok /\ \A j \in 1..(i - 1) : rs[j].ok
    ELSE 0

\* deepClone: primitives (and functions) are returned as they are, arrays are
\* mapped, objects are rebuilt key by key. `obj.hasOwnProperty(key)` is looked
\* up on the object itself, so an own property named hasOwnProperty that is
\* not a function makes the first loop iteration throw a TypeError.
RECURSIVE deepClone(_)
deepClone(obj) ==
    IF obj.t = "null" \/ TypeOf(obj) # "object" THEN Ok(obj)
    ELSE IF obj.t = "array" THEN
        LET items == [i \in 1..Len(obj.v) |-> deepClone(obj.v[i])]
        IN  IF FirstThrow(items) # 0 THEN items[FirstThrow(items)]
            ELSE Ok(Arr([i \in 1..Len(items) |-> items[i].val]))
    ELSE
        IF Len(obj.v) > 0 /\ GetProp(obj, "hasOwnProperty").t # "function"
        THEN Throw("obj.hasOwnProperty is not a function")
        ELSE
            LET items == [i \in 1..Len(obj.v) |-> deepClone(obj.v[i][2])]
            IN  IF FirstThrow(items) # 0 THEN items[FirstThrow(items)]
                ELSE Ok(Obj([i \in 1..Len(items) |-> <<obj.v[i][1], items[i].val>>]))

\* path.split('.') for the paths of the model: the dotted paths are listed,
\* every other path has no dot and is its own single segment.
DottedPaths == [p \in {"user.role"} |-> <<"user", "role">>]

Split(path) ==
    IF path \in DOMAIN DottedPaths THEN DottedPaths[path] ELSE <<path>>

\* One step of the reduce in getNestedProperty.
NestedStep(current, key, defaultValue) ==
    IF Truthy(current) /\ GetProp(current, key) # Undefined
    THEN GetProp(current, key)
    ELSE defaultValue

RECURSIVE NestedReduce(_, _, _)
NestedReduce(current, keys, defaultValue) ==
    IF keys = <<>> THEN current
    ELSE NestedReduce(NestedStep(current, Head(keys), defaultValue),
                      Tail(keys), defaultValue)

getNestedProperty(obj, path, defaultValue) ==
    NestedReduce(obj, Split(path), defaultValue)

\* array.slice(start, end) for integer arguments: a negative index counts
\* from the end, both are clamped to 0 .. length.
Slice(array, start, end) ==
    LET len == Len(array)
        Clamp(i) == IF i < 0 THEN (IF len + i < 0 THEN 0 ELSE len + i)
                    ELSE IF i > len THEN len ELSE i
    IN  SubSeq(array, Clamp(start) + 1, Clamp(end))

\* take(n)(array) = array.slice(0, n)
take(n, array) == Slice(array, 0, n)

\* skip(n)(array) = array.slice(n)
skip(n, array) == Slice(array, n, Len(array))

\* String(x) for the values the comparator is given
JsString(x) ==
    CASE x.t = "string" -> x.v
      [] x.t = "number" -> ToString(x.v)
      [] x.t = "boolean" -> IF x.v THEN "true" ELSE "false"
      [] x.t = "object" -> "[object Object]"
      [] OTHER -> x.v

\* The integer numerals "0" .. "99": String(n) of a small non-negative integer.
Numerals == [n \in 0..99 |-> ToString(n)]

IsNumeral(s) == \E n \in DOMAIN Numerals : Numerals[n] = s

NumeralValue(s) == CHOOSE n \in DOMAIN Numerals : Numerals[n] = s

\* The other strings of the model in the order of the root collation with
\* {numeric: true, sensitivity: 'base'}: strings that start with a symbol sort
\* before every digit, strings that start with a letter after every digit,
\* letters compare without case.
SymbolStrings == <<"[object Object]", "+5", "+a">>
LetterStrings == <<"a", "active", "b", "Bob", "Eve", "false", "inactive",
                   "Infinity", "Jane", "John", "null", "true", "undefined">>

IndexIn(seq, s) == CHOOSE i \in 1..Len(seq) : seq[i] = s

\* parseFloat(s): the longest numeric prefix after an optional sign, NaN
\* when there is none; parseFloat("Infinity") is Infinity.
NaN == [k |-> "nan", n |-> 0]
Finite(n) == [k |-> "num", n |-> n]
PosInfinity == [k |-> "posinf", n |-> 0]
NegInfinity == [k |-> "neginf", n |-> 0]

parseFloat(s) ==
    IF IsNumeral(s) THEN Finite(NumeralValue(s))
    ELSE IF s = "+5" THEN Finite(5)
    ELSE IF s = "Infinity" THEN PosInfinity
    ELSE IF \E i \in 1..Len(SymbolStrings) : SymbolStrings[i] = s THEN NaN
    ELSE IF IndexIn(LetterStrings, s) > 0 THEN NaN
    ELSE NaN

\* isNaN(x)
IsNaN(x) == x.k = "nan"

\* a - b on the results of parseFloat (neither is NaN)
Minus(a, b) ==
    CASE a.k = "num" /\ b.k = "num" -> Finite(a.n - b.n)
      [] a.k = "posinf" /\ b.k = "posinf" -> NaN
      [] a.k = "posinf" -> PosInfinity
      [] OTHER -> NegInfinity

CollationKey(s) ==
    IF IsNumeral(s) THEN <<2, NumeralValue(s)>>
    ELSE IF \E i \in 1..Len(SymbolStrings) : SymbolStrings[i] = s
         THEN <<1, IndexIn(SymbolStrings, s)>>
         ELSE <<3, IndexIn(LetterStrings, s)>>

\* aStr.localeCompare(bStr, undefined, {numeric: true, sensitivity: 'base'})
localeCompare(aStr, bStr) ==
    LET ka == CollationKey(aStr)
        kb == CollationKey(bStr)
    IN  IF ka[1] < kb[1] \/ (ka[1] = kb[1] /\ ka[2] < kb[2]) THEN Finite(-1)
        ELSE IF ka = kb THEN Finite(0)
        ELSE Finite(1)

naturalSort(a, b) ==
    LET aStr == JsString(a)
        bStr == JsString(b)
        aNum == parseFloat(aStr)
        bNum == parseFloat(bStr)
    IN  IF ~IsNaN(aNum) /\ ~IsNaN(bNum)
        THEN Minus(aNum, bNum)
        ELSE localeCompare(aStr, bStr)

\* result !== 0
IsNotZero(r) == ~(r.k = "num" /\ r.n = 0)

\* multiKeyComparator(keys)(a, b): the first naturalSort result that is
\* !== 0 (NaN included), 0 when the loop runs out of keys.
RECURSIVE multiKeyComparator(_, _, _)
multiKeyComparator(keys, a, b) ==
    IF keys = <<>> THEN Finite(0)
    ELSE LET aVal == getNestedProperty(a, Head(keys), Undefined)
             bVal == getNestedProperty(b, Head(keys), Undefined)
             r == naturalSort(aVal, bVal)
         IN  IF IsNotZero(r) THEN r
             ELSE multiKeyComparator(Tail(keys), a, b)

\* Array.prototype.sort's reading of a comparator result: NaN counts as +0,
\* then only the sign matters.
SortCompare(keys, a, b) ==
    LET r == multiKeyComparator(keys, a, b)
    IN  CASE r.k = "nan" -> 0
          [] r.k = "posinf" -> 1
          [] r.k = "neginf" -> -1
          [] OTHER -> IF r.n < 0 THEN -1 ELSE IF r.n > 0 THEN 1 ELSE 0

\* The comparator's results on every pair of elements of an array, as
\* Array.prototype.sort reads them (tabulated once: @@ builds the table).
CompareTable(keys, array) ==
    LET I == 1..Len(array)
    IN  [p \in I \X I |-> SortCompare(keys, array[p[1]], array[p[2]])] @@ <<>>

\* ECMAScript's "consistent comparator" for the elements of an array.
ConsistentComparator(keys, array) ==
    LET I == 1..Len(array)
        c == CompareTable(keys, array)
    IN  /\ \A i \in I : c[<<i, i>>] = 0
        /\ \A i, j \in I : c[<<i, j>>] = 0 => c[<<j, i>>] = 0
        /\ \A i, j, k \in I :
            /\ (c[<<i, j>>] = 0 /\ c[<<j, k>>] = 0) => c[<<i, k>>] = 0
            /\ (c[<<i, j>>] < 0 /\ c[<<j, k>>] < 0) => c[<<i, k>>] < 0
            /\ (c[<<i, j>>] > 0 /\ c[<<j, k>>] > 0) => c[<<i, k>>] > 0

\* sort(comparator)(array) = [...array].sort(comparator), the comparator
\* being multiKeyComparator(keys): the set of arrays the call can return.
\* With a consistent comparator Array.prototype.sort returns the one stable
\* sorted permutation; otherwise the order is implementation-defined.
sort(keys, array) ==
    LET I == 1..Len(array)
        c == CompareTable(keys, array)
        Arrange(p) == [i \in I |-> array[p[i]]]
        SortedStable(p) ==
            \A i, j \in I : i < j =>
                \/ c[<<p[i], p[j]>>] < 0
                \/ (c[<<p[i], p[j]>>] = 0 /\ p[i] < p[j])
    IN  IF ConsistentComparator(keys, array)
        THEN {Arrange(p) : p \in {q \in Permutations(I) : SortedStable(q)}}
        ELSE {Arrange(p) : p \in Permutations(I)}

(***************************************************************************)
(* BaseRule                                                                *)
(***************************************************************************)
\* value1 === value2: primitives by value; an object, array or function of
\* a record is never the same reference as one of a criterion.
StrictEquals(value1, value2) ==
    /\ value1.t = value2.t
    /\ value1.t \notin {"array", "object", "function"}
    /\ value1 = value2

RECURSIVE deepEquals(_, _)
deepEquals(value1, value2) ==
    IF StrictEquals(value1, value2) THEN TRUE
    ELSE IF IsNullish(value1) \/ IsNullish(value2)
         THEN StrictEquals(value1, value2)
    ELSE IF TypeOf(value1) # TypeOf(value2) THEN FALSE
    ELSE IF TypeOf(value1) = "object" THEN
        IF IsArray(value1) # IsArray(value2) THEN FALSE
        ELSE IF IsArray(value1) THEN
            IF Len(value1.v) # Len(value2.v) THEN FALSE
            ELSE \A i \in 1..Len(value1.v) : deepEquals(value1.v[i], value2.v[i])
        ELSE
            IF Len(value1.v) # Len(value2.v) THEN FALSE
            ELSE \A i \in 1..Len(value1.v) :
                    LET key == value1.v[i][1]
                    IN  /\ HasOwn(value2, key)
                        /\ deepEquals(GetProp(value1, key), GetProp(value2, key))
    ELSE FALSE

\* Object.entries(x) of an object or an array
Entries(x) ==
    IF x.t = "array"
    THEN [i \in 1..Len(x.v) |-> <<ToString(i - 1), x.v[i]>>]
    ELSE x.v

matchesSingleCriterionSomeProperty(record, criterion) ==
    \E i \in 1..Len(Entries(criterion)) :
        LET key == Entries(criterion)[i][1]
            value == Entries(criterion)[i][2]
            recordValue == getNestedProperty(record, key, Undefined)
        IN  deepEquals(recordValue, value)

matchesSingleCriterion(record, criterion) ==
    \A i \in 1..Len(Entries(criterion)) :
        LET key == Entries(criterion)[i][1]
            value == Entries(criterion)[i][2]
            recordValue == getNestedProperty(record, key, Undefined)
        IN  deepEquals(recordValue, value)

matchesRecordEveryElement(record, criteria) ==
    IF IsArray(criteria)
    THEN \A i \in 1..Len(criteria.v) : matchesSingleCriterion(record, criteria.v[i])
    ELSE matchesSingleCriterion(record, criteria)

matchesRecord(record, criteria) ==
    IF IsArray(criteria)
    THEN \E i \in 1..Len(criteria.v) : matchesSingleCriterion(record, criteria.v[i])
    ELSE matchesSingleCriterion(record, criteria)

\* The value every validate returns
ValidationResult(errors, warnings) ==
    [isValid |-> Len(errors) = 0, errors |-> errors, warnings |-> warnings]

\* The indexes of an array in the order forEach visits them
Indexes(items) == [i \in 1..Len(items) |-> i]

validateCriteriaConfig(config, ruleName) ==
    IF ~Truthy(config)
    THEN ValidationResult(<<ruleName \o " rule requires configuration">>, <<>>)
    ELSE IF ~IsArray(config) /\ TypeOf(config) # "object"
    THEN ValidationResult(
            <<ruleName \o " rule configuration must be an array or object">>, <<>>)
    ELSE IF IsArray(config)
    THEN ValidationResult(
            LET bad == SelectSeq(Indexes(config.v), LAMBDA i :
                            TypeOf(config.v[i]) # "object" \/ config.v[i].t = "null")
            IN  [n \in 1..Len(bad) |->
                    ruleName \o " rule criteria[" \o ToString(bad[n] - 1)
                             \o "] must be an object"],
            IF Len(config.v) = 0
            THEN <<ruleName \o " rule has empty criteria array">> ELSE <<>>)
    ELSE ValidationResult(<<>>,
            IF Len(Keys(config)) = 0
            THEN <<ruleName \o " rule has empty criteria object">> ELSE <<>>)

(***************************************************************************)
(* IncludeRule, ExcludeRule                                                *)
(***************************************************************************)
IncludeValidate(config) == validateCriteriaConfig(config, "Include")

IncludeExecute(d, config) ==
    IF ~IsArray(d) THEN Throw("Include rule requires data to be an array")
    ELSE Ok(Arr(SelectSeq(d.v, LAMBDA record : matchesRecord(record, config))))

ExcludeValidate(config) == validateCriteriaConfig(config, "Exclude")

\* Faulty variant of ExcludeExecute: with an array of criteria a record is
\* removed only when it matches every one of them (the negation taken inside
\* the OR).
ExcludeExecuteAnyMismatch(d, config) ==
    IF ~IsArray(d) THEN Throw("Exclude rule requires data to be an array")
    ELSE IF IsArray(config)
    THEN Ok(Arr(SelectSeq(d.v, LAMBDA record :
                \E i \in 1..Len(config.v) :
                    ~matchesSingleCriterion(record, config.v[i]))))
    ELSE Ok(Arr(SelectSeq(d.v, LAMBDA record : ~matchesRecord(record, config))))

\* Faulty variant of ExcludeExecute: only the first record that matches is
\* removed.
ExcludeExecuteFirstMatch(d, config) ==
    IF ~IsArray(d) THEN Throw("Exclude rule requires data to be an array")
    ELSE LET matching == {i \in 1..Len(d.v) : matchesRecord(d.v[i], config)}
         IN  IF matching = {} THEN Ok(d)
             ELSE LET first == CHOOSE i \in matching : \A j \in matching : i <= j
                  IN  Ok(Arr(SubSeq(d.v, 1, first - 1)
                             \o SubSeq(d.v, first + 1, Len(d.v))))

ExcludeExecute(d, config) ==
    IF ~IsArray(d) THEN Throw("Exclude rule requires data to be an array")
    ELSE Ok(Arr(SelectSeq(d.v, LAMBDA record : ~matchesRecord(record, config))))

(***************************************************************************)
(* SortRule                                                                *)
(***************************************************************************)
\* s.trim() for the strings of the model: only the listed ones hold nothing
\* but whitespace, no other string starts or ends with whitespace.
BlankStrings == {"", " "}

Trim(s) == IF s \in BlankStrings THEN "" ELSE s

SortValidate(config) ==
    IF ~Truthy(config)
    THEN ValidationResult(<<"Sort rule requires configuration">>, <<>>)
    ELSE IF TypeOf(config) = "string"
    THEN ValidationResult(
            IF Trim(config.v) = "" THEN <<"Sort rule key cannot be empty">> ELSE <<>>,
            <<>>)
    ELSE IF IsArray(config)
    THEN ValidationResult(
            LET bad == SelectSeq(Indexes(config.v), LAMBDA i :
                            \/ TypeOf(config.v[i]) # "string"
                            \/ Trim(config.v[i].v) = "")
            IN  [n \in 1..Len(bad) |->
                    IF TypeOf(config.v[bad[n]]) # "string"
                    THEN "Sort rule key[" \o ToString(bad[n] - 1) \o "] must be a string"
                    ELSE "Sort rule key[" \o ToString(bad[n] - 1) \o "] cannot be empty"],
            IF Len(config.v) = 0 THEN <<"Sort rule has empty keys array">> ELSE <<>>)
    ELSE ValidationResult(
            <<"Sort rule configuration must be a string or array of strings">>, <<>>)

\* The keys SortRule.execute hands to multiKeyComparator (strings, once validated)
SortKeys(config) ==
    IF IsArray(config) THEN [i \in 1..Len(config.v) |-> config.v[i].v]
    ELSE <<config.v>>

\* SortRule.execute: the set of outcomes of the call
SortExecute(d, config) ==
    IF ~IsArray(d) THEN {Throw("Sort rule requires data to be an array")}
    ELSE {Ok(Arr(a)) : a \in sort(SortKeys(config), d.v)}

(***************************************************************************)
(* LimitRule                                                               *)
(***************************************************************************)
LimitCountIsZero(count) == count.t = "number" /\ count.v = 0 /\ ~count.frac

LimitValidate(config) ==
    IF IsNullish(config)
    THEN ValidationResult(<<"Limit rule requires configuration">>, <<>>)
    ELSE IF TypeOf(config) = "number"
    THEN ValidationResult(
            IF ~IsInteger(config) \/ config.v < 0
            THEN <<"Limit rule count must be a non-negative integer">> ELSE <<>>,
            IF LimitCountIsZero(config)
            THEN <<"Limit rule count is 0, will return empty result">> ELSE <<>>)
    ELSE IF TypeOf(config) = "object"
    THEN LET count == GetProp(config, "count")
             offset == GetProp(config, "offset")
         IN  ValidationResult(
                (IF IsNullish(count)
                 THEN <<"Limit rule object must have count property">>
                 ELSE IF ~IsInteger(count) \/ count.v < 0
                 THEN <<"Limit rule count must be a non-negative integer">>
                 ELSE <<>>)
                \o
                (IF ~IsNullish(offset) /\ (~IsInteger(offset) \/ offset.v < 0)
                 THEN <<"Limit rule offset must be a non-negative integer">>
                 ELSE <<>>),
                IF LimitCountIsZero(count)
                THEN <<"Limit rule count is 0, will return empty result">> ELSE <<>>)
    ELSE ValidationResult(
            <<"Limit rule configuration must be a number or object with count/offset">>,
            <<>>)

\* LimitRule.execute with the two stages of the pipe exchanged: take(count)
\* before skip(offset)
LimitExecuteTakeThenSkip(d, config) ==
    IF ~IsArray(d) THEN Throw("Limit rule requires data to be an array")
    ELSE IF TypeOf(config) = "number"
    THEN Ok(Arr(skip(0, take(config.v, d.v))))
    ELSE IF IsNullish(config)
    THEN Throw("Cannot read properties of " \o config.t \o " (reading 'count')")
    ELSE LET count == GetProp(config, "count")
             offset == IF Truthy(GetProp(config, "offset"))
                       THEN GetProp(config, "offset") ELSE Num(0)
         IN  Ok(Arr(skip(offset.v, take(count.v, d.v))))

\* LimitRule.execute, count and offset being integers
LimitExecute(d, config) ==
    IF ~IsArray(d) THEN Throw("Limit rule requires data to be an array")
    ELSE IF TypeOf(config) = "number"
    THEN Ok(Arr(take(config.v, skip(0, d.v))))
    ELSE IF IsNullish(config)
    THEN Throw("Cannot read properties of " \o config.t \o " (reading 'count')")
    ELSE LET count == GetProp(config, "count")
             offset == IF Truthy(GetProp(config, "offset"))
                       THEN GetProp(config, "offset") ELSE Num(0)
         IN  Ok(Arr(take(count.v, skip(offset.v, d.v))))

(***************************************************************************)
(* TransformRule                                                           *)
(***************************************************************************)
TransformValidate(config) ==
    IF ~Truthy(config) \/ TypeOf(config) # "object"
    THEN ValidationResult(<<"Transform rule requires configuration object">>, <<>>)
    ELSE
        LET fields == GetProp(config, "fields")
            computed == GetProp(config, "computed")
            rename == GetProp(config, "rename")
            fieldErrors ==
                IF IsNullish(fields) THEN <<>>
                ELSE IF ~IsArray(fields)
                THEN <<"Transform rule fields must be an array">>
                ELSE LET bad == SelectSeq(Indexes(fields.v), LAMBDA i :
                                    TypeOf(fields.v[i]) # "string")
                     IN  [n \in 1..Len(bad) |->
                            "Transform rule fields[" \o ToString(bad[n] - 1)
                                \o "] must be a string"]
            computedErrors ==
                IF IsNullish(computed) THEN <<>>
                ELSE IF TypeOf(computed) # "object"
                THEN <<"Transform rule computed must be an object">>
                ELSE LET es == Entries(computed)
                         bad == SelectSeq(Indexes(es), LAMBDA i :
                                    /\ TypeOf(es[i][2]) # "function"
                                    /\ TypeOf(es[i][2]) # "string")
                     IN  [n \in 1..Len(bad) |->
                            "Transform rule computed." \o es[bad[n]][1]
                                \o " must be a function or string expression"]
            renameErrors ==
                IF ~IsNullish(rename) /\ TypeOf(rename) # "object"
                THEN <<"Transform rule rename must be an object">> ELSE <<>>
        IN  ValidationResult(fieldErrors \o computedErrors \o renameErrors, <<>>)

\* The functions a computed field of the model can be, applied to a record:
\*   isActive: record => record.status === 'active'
\*   boom:     record => { throw new Error('boom') }
ApplyFunction(fn, record) ==
    IF fn.v = "isActive"
    THEN IF IsNullish(record)
         THEN Throw("Cannot read properties of " \o record.t \o " (reading 'status')")
         ELSE Ok(Bool(StrictEquals(GetProp(record, "status"), Str("active"))))
    ELSE Throw("boom")

\* The templates of the model that hold {{fieldPath}} placeholders, cut at the
\* matches of /\{\{([^}]+)\}\}/g: <<"text", t>> is literal text, <<"path", p>>
\* a placeholder with the trimmed path p. Any other string has no placeholder.
Templates ==
    [t \in {"{{name}} ({{status}})"} |->
        << <<"path", "name">>, <<"text", " (">>, <<"path", "status">>, <<"text", ")">> >>]

RECURSIVE TemplateConcat(_, _)
TemplateConcat(parts, record) ==
    IF parts = <<>> THEN ""
    ELSE LET part == Head(parts)
             value == getNestedProperty(record, part[2], Undefined)
             text == IF part[1] = "text" THEN part[2]
                     ELSE IF ~IsNullish(value) THEN JsString(value) ELSE ""
         IN  text \o TemplateConcat(Tail(parts), record)

evaluateStringTemplate(template, record) ==
    IF template \in DOMAIN Templates
    THEN TemplateConcat(Templates[template], record)
    ELSE template

\* config.fields.forEach(...) building selectedFields
RECURSIVE SelectFields(_, _, _)
SelectFields(record, fields, selectedFields) ==
    IF fields = <<>> THEN selectedFields
    ELSE LET field == Head(fields).v
             value == getNestedProperty(record, field, Undefined)
         IN  SelectFields(record, Tail(fields),
                IF value # Undefined
                THEN SetProp(selectedFields, field, value)
                ELSE selectedFields)

\* result[key] = value inside the class body (strict mode)
AssignProp(res, key, value) ==
    IF IsNullish(res)
    THEN Throw("Cannot set properties of " \o res.t \o " (setting '" \o key \o "')")
    ELSE Ok(SetProp(res, key, value))

\* The forEach over config.computed without its try / catch: a computation
\* that throws ends the loop with its error
RECURSIVE ComputeFieldsUncaught(_, _, _)
ComputeFieldsUncaught(record, entries, res) ==
    IF entries = <<>> THEN Ok(res)
    ELSE LET key == Head(entries)[1]
             computation == Head(entries)[2]
             value == IF TypeOf(computation) = "function"
                      THEN ApplyFunction(computation, record)
                      ELSE IF TypeOf(computation) = "string"
                      THEN Ok(Str(evaluateStringTemplate(computation.v, record)))
                      ELSE Ok(Undefined)
             tried == IF value.ok THEN AssignProp(res, key, value.val) ELSE value
         IN  IF tried.ok
             THEN ComputeFieldsUncaught(record, Tail(entries), tried.val)
             ELSE tried

\* Object.entries(config.computed).forEach(...): res is the record built so far
RECURSIVE ComputeFields(_, _, _)
ComputeFields(record, entries, res) ==
    IF entries = <<>> THEN Ok(res)
    ELSE LET key == Head(entries)[1]
             computation == Head(entries)[2]
             value == IF TypeOf(computation) = "function"
                      THEN ApplyFunction(computation, record)
                      ELSE IF TypeOf(computation) = "string"
                      THEN Ok(Str(evaluateStringTemplate(computation.v, record)))
                      ELSE Ok(Undefined)
             tried == IF value.ok THEN AssignProp(res, key, value.val) ELSE value
             \* catch (error) { result[key] = null }
             caught == IF tried.ok THEN tried ELSE AssignProp(res, key, Null)
         IN  IF caught.ok
             THEN ComputeFields(record, Tail(entries), caught.val)
             ELSE caught

\* Object.entries(config.rename).forEach(...)
RECURSIVE RenameFields(_, _)
RenameFields(entries, res) ==
    IF entries = <<>> THEN Ok(res)
    ELSE LET oldKey == Head(entries)[1]
             newKey == JsString(Head(entries)[2])
         IN  IF IsNullish(res)
             THEN Throw("Cannot read properties of " \o res.t
                            \o " (reading 'hasOwnProperty')")
             ELSE IF GetProp(res, "hasOwnProperty").t # "function"
             THEN Throw("result.hasOwnProperty is not a function")
             ELSE IF HasOwn(res, oldKey)
             THEN RenameFields(Tail(entries),
                    DeleteProp(SetProp(res, newKey, GetProp(res, oldKey)), oldKey))
             ELSE RenameFields(Tail(entries), res)

\* transformRecord with the computations applied to the record built so
\* far instead of the original one
transformRecordComputedOnResult(record, config) ==
    LET cloned == deepClone(record)
        fields == GetProp(config, "fields")
        computed == GetProp(config, "computed")
        rename == GetProp(config, "rename")
    IN  IF ~cloned.ok THEN cloned
        ELSE
            LET selected == IF Truthy(fields)
                            THEN SelectFields(record, fields.v, Obj(<<>>))
                            ELSE cloned.val
                withComputed == IF Truthy(computed)
                                THEN ComputeFields(selected, Entries(computed), selected)
                                ELSE Ok(selected)
            IN  IF ~withComputed.ok THEN withComputed
                ELSE IF Truthy(rename)
                THEN RenameFields(Entries(rename), withComputed.val)
                ELSE withComputed

transformRecord(record, config) ==
    LET cloned == deepClone(record)
        fields == GetProp(config, "fields")
        computed == GetProp(config, "computed")
        rename == GetProp(config, "rename")
    IN  IF ~cloned.ok THEN cloned
        ELSE
            LET selected == IF Truthy(fields)
                            THEN SelectFields(record, fields.v, Obj(<<>>))
                            ELSE cloned.val
                withComputed == IF Truthy(computed)
                                THEN ComputeFields(record, Entries(computed), selected)
                                ELSE Ok(selected)
            IN  IF ~withComputed.ok THEN withComputed
                ELSE IF Truthy(rename)
                THEN RenameFields(Entries(rename), withComputed.val)
                ELSE withComputed

\* TransformRule.execute: data.map(record => this.transformRecord(record, config))
TransformExecute(d, config) ==
    IF ~IsArray(d) THEN Throw("Transform rule requires data to be an array")
    ELSE LET items == [i \in 1..Len(d.v) |-> transformRecord(d.v[i], config)]
         IN  IF FirstThrow(items) # 0 THEN items[FirstThrow(items)]
             ELSE Ok(Arr([i \in 1..Len(items) |-> items[i].val]))

(***************************************************************************)
(* RuleRegistry                                                            *)
(***************************************************************************)
\* What each rule class's constructor sets: name, type, priority.
RuleClasses ==
    [IncludeRule |-> [cls |-> "IncludeRule", name |-> "Include",
                      type |-> "include", priority |-> 1],
     ExcludeRule |-> [cls |-> "ExcludeRule", name |-> "Exclude",
                      type |-> "exclude", priority |-> 2],
     SortRule |-> [cls |-> "SortRule", name |-> "Sort",
                   type |-> "sortBy", priority |-> 10],
     LimitRule |-> [cls |-> "LimitRule", name |-> "Limit",
                    type |-> "limit", priority |-> 20],
     TransformRule |-> [cls |-> "TransformRule", name |-> "Transform",
                        type |-> "transform", priority |-> 15]]

\* new BaseRule(name, type): the constructor sets priority 0, validate and
\* execute are BaseRule's own
BaseRuleInstances ==
    [Broken |-> [cls |-> "BaseRule", name |-> "Broken",
                 type |-> "broken", priority |-> 0],
     Plain |-> [cls |-> "BaseRule", name |-> "Plain",
                type |-> "include", priority |-> 0]]

\* The rule instances a caller can register, by the name the model gives them
RuleInstances == RuleClasses @@ BaseRuleInstances

\* The order of ruleClasses in autoRegisterRules
BuiltInClasses ==
    <<"IncludeRule", "ExcludeRule", "SortRule", "LimitRule", "TransformRule">>

\* rule.validate(config), dispatched on the rule's class; a class that does
\* not override it inherits BaseRule.validate.
RuleValidate(rule, config) ==
    CASE rule.cls = "IncludeRule" -> IncludeValidate(config)
      [] rule.cls = "ExcludeRule" -> ExcludeValidate(config)
      [] rule.cls = "SortRule" -> SortValidate(config)
      [] rule.cls = "LimitRule" -> LimitValidate(config)
      [] rule.cls = "TransformRule" -> TransformValidate(config)
      [] OTHER -> ValidationResult(<<>>, <<>>)

\* Faulty variant of RuleExecute: BaseRule.execute returns the data it is
\* given instead of throwing.
RuleExecuteReturningData(rule, d, config) ==
    CASE rule.cls = "IncludeRule" -> {IncludeExecute(d, config)}
      [] rule.cls = "ExcludeRule" -> {ExcludeExecute(d, config)}
      [] rule.cls = "SortRule" -> SortExecute(d, config)
      [] rule.cls = "LimitRule" -> {LimitExecute(d, config)}
      [] rule.cls = "TransformRule" -> {TransformExecute(d, config)}
      [] OTHER -> {Ok(d)}

\* rule.execute(data, config), dispatched on the rule's class: the set of
\* outcomes of the call; a class that does not override it inherits
\* BaseRule.execute, which throws.
RuleExecute(rule, d, config) ==
    CASE rule.cls = "IncludeRule" -> {IncludeExecute(d, config)}
      [] rule.cls = "ExcludeRule" -> {ExcludeExecute(d, config)}
      [] rule.cls = "SortRule" -> SortExecute(d, config)
      [] rule.cls = "LimitRule" -> {LimitExecute(d, config)}
      [] rule.cls = "TransformRule" -> {TransformExecute(d, config)}
      [] OTHER -> {Throw("Rule " \o rule.name \o " must implement execute method")}

\* rules.has(type)
hasRule(type) == type \in DOMAIN rules

\* rules.get(type) || null
getRule(type) == IF type \in DOMAIN rules THEN rules[type] ELSE Null

\* errors.join(', ')
RECURSIVE Join(_)
Join(strings) ==
    IF strings = <<>> THEN ""
    ELSE IF Len(strings) = 1 THEN strings[1]
    ELSE strings[1] \o ", " \o Join(Tail(strings))

\* Faulty variant of executeRule: a type without a rule is passed over, the
\* data returned as it is.
executeRuleSkippingUnknown(type, d, config) ==
    IF ~hasRule(type)
    THEN {[outcome |-> Ok(d), executed |-> <<>>]}
    ELSE LET rule == getRule(type)
             validated == RuleValidate(rule, config)
         IN  IF ~validated.isValid
             THEN {[outcome |-> Throw("Rule validation failed: "
                                        \o Join(validated.errors)),
                    executed |-> <<>>]}
             ELSE {[outcome |-> o,
                    executed |-> <<[type |-> type, input |-> d, outcome |-> o]>>] :
                        o \in RuleExecute(rule, d, config)}

\* Faulty variant of executeRule: rule.execute is called without
\* rule.validate having accepted the config.
executeRuleUnvalidated(type, d, config) ==
    IF ~hasRule(type)
    THEN {[outcome |-> Throw("Rule type '" \o type \o "' is not registered"),
           executed |-> <<>>]}
    ELSE {[outcome |-> o,
           executed |-> <<[type |-> type, input |-> d, outcome |-> o]>>] :
                o \in RuleExecute(getRule(type), d, config)}

\* RuleRegistry.executeRule(type, data, config): the set of outcomes, each
\* with the calls of rule.execute it made (`executed`).
executeRule(type, d, config) ==
    IF ~hasRule(type)
    THEN {[outcome |-> Throw("Rule type '" \o type \o "' is not registered"),
           executed |-> <<>>]}
    ELSE LET rule == getRule(type)
             validated == RuleValidate(rule, config)
         IN  IF ~validated.isValid
             THEN {[outcome |-> Throw("Rule validation failed: "
                                        \o Join(validated.errors)),
                    executed |-> <<>>]}
             ELSE {[outcome |-> o,
                    executed |-> <<[type |-> type, input |-> d, outcome |-> o]>>] :
                        o \in RuleExecute(rule, d, config)}

\* Faulty variant of registerRule: a type that is already registered keeps
\* its rule.
registerRuleKeepFirst(ruleInstance) ==
    rules @@ (ruleInstance.type :> ruleInstance)

\* registerRule(ruleInstance) for an instance of BaseRule or of a class that
\* extends it: rules.set(type, instance); the value of rules afterwards
registerRule(ruleInstance) ==
    (ruleInstance.type :> ruleInstance) @@ rules

\* unregisterRule(type): rules.delete(type), which returns whether the key
\* was there; the value returned and the value of rules afterwards
unregisterRule(type) ==
    [returned |-> type \in DOMAIN rules,
     rules |-> [t \in DOMAIN rules \ {type} |-> rules[t]]]

\* getAllRules() = Array.from(rules.values()): the rules in the order their
\* types were first set, which `rules` does not keep: every order
getAllRules ==
    LET n == Cardinality(DOMAIN rules)
    IN  {all \in [1..n -> {rules[t] : t \in DOMAIN rules}] :
            \A i, j \in 1..n : i # j => all[i] # all[j]}

\* .sort((a, b) => a.priority - b.priority) of an array of rules: the stable
\* sorted permutation
SortRules(all) ==
    LET I == 1..Len(all)
        p == CHOOSE q \in Permutations(I) :
                \A i, j \in I : i < j =>
                    \/ all[q[i]].priority < all[q[j]].priority
                    \/ (all[q[i]].priority = all[q[j]].priority /\ q[i] < q[j])
    IN  [i \in I |-> all[p[i]]]

\* getRulesByPriority(): the arrays it can return
getRulesByPriority == {SortRules(all) : all \in getAllRules}

\* registerRule(ruleInstance), the instance being one the model names
RegisterRule(cls) ==
    /\ pc = "idle"
    /\ op = "none"
    /\ rules' = registerRule(RuleInstances[cls])
    /\ UNCHANGED <<pc, op, data, condition, result, ruleEntries, appliedRules,
                   executeLog, ret, callVars, engineVars>>

\* unregisterRule(type) = rules.delete(type)
UnregisterRule(type) ==
    /\ pc = "idle"
    /\ op = "none"
    /\ rules' = unregisterRule(type).rules
    /\ UNCHANGED <<pc, op, data, condition, result, ruleEntries, appliedRules,
                   executeLog, ret, callVars, engineVars>>

\* clearRules()
ClearRules ==
    /\ pc = "idle"
    /\ op = "none"
    /\ rules' = <<>>
    /\ UNCHANGED <<pc, op, data, condition, result, ruleEntries, appliedRules,
                   executeLog, ret, callVars, engineVars>>

\* autoRegisterRules(): registers an instance of each built-in class
AutoRegisterRules ==
    /\ pc = "idle"
    /\ op = "none"
    /\ rules' = [t \in {RuleClasses[BuiltInClasses[i]].type :
                            i \in 1..Len(BuiltInClasses)} |->
                    RuleClasses[BuiltInClasses[
                        CHOOSE i \in 1..Len(BuiltInClasses) :
                            RuleClasses[BuiltInClasses[i]].type = t]]] @@ rules
    /\ UNCHANGED <<pc, op, data, condition, result, ruleEntries, appliedRules,
                   executeLog, ret, callVars, engineVars>>

(***************************************************************************)
(* DataProcessor                                                           *)
(***************************************************************************)
\* Faulty variant of RegisteredEntries: the entries up to the first key that
\* has no registered rule (a takeWhile in place of the filter).
RegisteredEntriesUntilUnknown(c) ==
    LET es == Entries(c)
        unknown == {i \in 1..Len(es) : ~hasRule(es[i][1])}
        n == IF unknown = {} THEN Len(es)
             ELSE (CHOOSE i \in unknown : \A j \in unknown : i <= j) - 1
    IN  [i \in 1..n |-> [type |-> es[i][1], config |-> es[i][2]]]

\* Object.entries(condition).map(...).filter(({type}) => RuleRegistry.hasRule(type))
RegisteredEntries(c) ==
    LET es == Entries(c)
        kept == SelectSeq(Indexes(es), LAMBDA i : hasRule(es[i][1]))
    IN  [n \in 1..Len(kept) |-> [type |-> es[kept[n]][1], config |-> es[kept[n]][2]]]

\* Faulty variant of SortByPriority: the entries in the order of the keys of
\* the condition object (the sort left out).
SortByPriorityInsertionOrder(entries) == entries

\* .sort((a, b) => ruleA.priority - ruleB.priority): the comparator is
\* consistent, so the result is the one stable sorted permutation.
SortByPriority(entries) ==
    LET I == 1..Len(entries)
        prio(i) == getRule(entries[i].type).priority
        p == CHOOSE q \in Permutations(I) :
                \A i, j \in I : i < j =>
                    \/ prio(q[i]) < prio(q[j])
                    \/ (prio(q[i]) = prio(q[j]) /\ q[i] < q[j])
    IN  [i \in I |-> entries[p[i]]]

\* Faulty variant of Failure: inputCount is 0 whatever data is.
FailureWithoutCount(d, message) ==
    [result |-> Arr(<<>>),
     metadata |-> [inputCount |-> 0,
                   outputCount |-> 0,
                   appliedRules |-> <<>>,
                   error |-> Str(message)]]

\* The value processData returns from its catch block.
\* (processingTime, a reading of the clock, is left out of metadata.)
Failure(d, message) ==
    [result |-> Arr(<<>>),
     metadata |-> [inputCount |-> IF IsArray(d) THEN Len(d.v) ELSE 0,
                   outputCount |-> 0,
                   appliedRules |-> <<>>,
                   error |-> Str(message)]]

\* The value processData returns at the end of its try block
Success(d, res, applied) ==
    [result |-> res,
     metadata |-> [inputCount |-> Len(d.v),
                   outputCount |-> Len(res.v),
                   appliedRules |-> applied,
                   error |-> Undefined]]

\* processData(data, condition) up to the for-loop: the input checks, the
\* clone of data, the rule entries sorted by priority.
ProcessDataCall(d, c) ==
    /\ pc = "idle"
    /\ op = "none"
    /\ op' = "processData"
    /\ data' = d
    /\ condition' = c
    /\ executeLog' = <<>>
    /\ appliedRules' = <<>>
    /\ IF ~IsArray(d)
       THEN /\ ret' = Failure(d, "Data must be an array")
            /\ UNCHANGED <<pc, result, ruleEntries>>
       ELSE IF ~Truthy(c) \/ TypeOf(c) # "object"
       THEN /\ ret' = Failure(d, "Condition must be an object")
            /\ UNCHANGED <<pc, result, ruleEntries>>
       ELSE IF ~deepClone(d).ok
       THEN /\ ret' = Failure(d, deepClone(d).err)
            /\ UNCHANGED <<pc, result, ruleEntries>>
       ELSE /\ result' = deepClone(d).val
            /\ ruleEntries' = SortByPriority(RegisteredEntries(c))
            /\ pc' = "executing"
            /\ ret' = Undefined
    /\ UNCHANGED <<rules, callVars, engineVars>>

\* One iteration of the for-loop: RuleRegistry.executeRule on the current
\* result; its throw is rethrown with the rule type and caught by the outer
\* catch, which returns the failure value.
ExecuteNextRule ==
    /\ pc = "executing"
    /\ ruleEntries # <<>>
    /\ LET type == Head(ruleEntries).type
           config == Head(ruleEntries).config
       IN  \E r \in executeRule(type, result, config) :
            /\ executeLog' = executeLog \o r.executed
            /\ IF r.outcome.ok
               THEN /\ result' = r.outcome.val
                    /\ appliedRules' = Append(appliedRules,
                            [type |-> type, config |-> config,
                             priority |-> getRule(type).priority])
                    /\ ruleEntries' = Tail(ruleEntries)
                    /\ UNCHANGED <<pc, ret>>
               ELSE /\ ret' = Failure(data, "Failed to execute " \o type
                                            \o " rule: " \o r.outcome.err)
                    /\ pc' = "idle"
                    /\ result' = Undefined
                    /\ ruleEntries' = <<>>
                    /\ appliedRules' = <<>>
    /\ UNCHANGED <<rules, op, data, condition, callVars, engineVars>>

\* The end of the try block: the for-loop is over, processData returns.
ProcessDataReturn ==
    /\ pc = "executing"
    /\ ruleEntries = <<>>
    /\ ret' = Success(data, result, appliedRules)
    /\ pc' = "idle"
    /\ result' = Undefined
    /\ appliedRules' = <<>>
    /\ UNCHANGED <<rules, op, data, condition, ruleEntries, executeLog,
                   callVars, engineVars>>

\* The for-loop of processData as a whole, from the entries still to visit:
\* the set of values the call can return.
RECURSIVE RunRules(_, _, _, _)
RunRules(d, entries, res, applied) ==
    IF entries = <<>> THEN {Success(d, res, applied)}
    ELSE LET type == Head(entries).type
             config == Head(entries).config
         IN  UNION {IF r.outcome.ok
                    THEN RunRules(d, Tail(entries), r.outcome.val,
                                  Append(applied,
                                         [type |-> type, config |-> config,
                                          priority |-> getRule(type).priority]))
                    ELSE {Failure(d, "Failed to execute " \o type
                                     \o " rule: " \o r.outcome.err)} :
                    r \in executeRule(type, res, config)}

\* processData(data, condition) as a whole: the set of values the call can
\* return with the registry as it is.
processData(d, c) ==
    IF ~IsArray(d) THEN {Failure(d, "Data must be an array")}
    ELSE IF ~Truthy(c) \/ TypeOf(c) # "object"
    THEN {Failure(d, "Condition must be an object")}
    ELSE IF ~deepClone(d).ok THEN {Failure(d, deepClone(d).err)}
    ELSE RunRules(d, SortByPriority(RegisteredEntries(c)), deepClone(d).val, <<>>)

\* validateCondition(condition): the value returned, and the calls of
\* rule.execute made on the way (none).
RECURSIVE ConditionErrors(_)
ConditionErrors(entries) ==
    IF entries = <<>> THEN <<>>
    ELSE LET type == Head(entries)[1]
             config == Head(entries)[2]
         IN  (IF ~hasRule(type) THEN <<"Unknown rule type: " \o type>>
              ELSE LET ruleValidation == RuleValidate(getRule(type), config)
                   IN  IF ~ruleValidation.isValid
                       THEN [i \in 1..Len(ruleValidation.errors) |->
                                type \o ": " \o ruleValidation.errors[i]]
                       ELSE <<>>)
             \o ConditionErrors(Tail(entries))

RECURSIVE ConditionWarnings(_)
ConditionWarnings(entries) ==
    IF entries = <<>> THEN <<>>
    ELSE LET type == Head(entries)[1]
             config == Head(entries)[2]
         IN  (IF ~hasRule(type) THEN <<>>
              ELSE LET ruleValidation == RuleValidate(getRule(type), config)
                   IN  [i \in 1..Len(ruleValidation.warnings) |->
                            type \o ": " \o ruleValidation.warnings[i]])
             \o ConditionWarnings(Tail(entries))

\* Faulty variant of validateCondition: keys without a registered rule are
\* passed over, as processData passes them over.
validateConditionIgnoringUnknown(c) ==
    IF ~Truthy(c) \/ TypeOf(c) # "object"
    THEN [value |-> [isValid |-> FALSE,
                     errors |-> <<"Condition must be an object">>,
                     warnings |-> <<>>],
          executed |-> <<>>]
    ELSE LET known == SelectSeq(Entries(c), LAMBDA e : hasRule(e[1]))
         IN  [value |-> [isValid |-> Len(ConditionErrors(known)) = 0,
                         errors |-> ConditionErrors(known),
                         warnings |->
                            (IF Len(Entries(c)) = 0
                             THEN <<"No rules specified in condition">> ELSE <<>>)
                            \o ConditionWarnings(known)],
              executed |-> <<>>]

validateCondition(c) ==
    IF ~Truthy(c) \/ TypeOf(c) # "object"
    THEN [value |-> [isValid |-> FALSE,
                     errors |-> <<"Condition must be an object">>,
                     warnings |-> <<>>],
          executed |-> <<>>]
    ELSE [value |-> [isValid |-> Len(ConditionErrors(Entries(c))) = 0,
                     errors |-> ConditionErrors(Entries(c)),
                     warnings |->
                        (IF Len(Entries(c)) = 0
                         THEN <<"No rules specified in condition">> ELSE <<>>)
                        \o ConditionWarnings(Entries(c))],
          executed |-> <<>>]

ValidateConditionCall(c) ==
    /\ pc = "idle"
    /\ op = "none"
    /\ op' = "validateCondition"
    /\ data' = Undefined
    /\ condition' = c
    /\ ret' = validateCondition(c).value
    /\ executeLog' = validateCondition(c).executed
    /\ UNCHANGED <<rules, pc, result, ruleEntries, appliedRules, callVars, engineVars>>

\* The caller drops the value the last call returned (as clearResults does
\* with lastResult). No call reads op, data, condition, ret or executeLog of
\* an earlier call, so every call is started from the state without them.
ClearResults ==
    /\ pc = "idle"
    /\ op # "none"
    /\ op' = "none"
    /\ data' = Undefined
    /\ condition' = Undefined
    /\ ret' = Undefined
    /\ executeLog' = <<>>
    /\ UNCHANGED <<rules, pc, result, ruleEntries, appliedRules, callVars, engineVars>>

(***************************************************************************)
(* Inputs of the DataProcessor calls                                       *)
(***************************************************************************)
\* The greatest number of keys of a condition object
MaxKeys == 2

Record(name, status) ==
    Obj(<< <<"name", Str(name)>>, <<"status", Str(status)>> >>)

\* A record with a field named hasOwnProperty, as JSON.parse can produce
ShadowRecord == Obj(<< <<"name", Str("Eve")>>, <<"hasOwnProperty", Bool(TRUE)>> >>)

SampleData ==
    Arr(<<Record("John", "inactive"), Record("Jane", "active"),
          Record("Bob", "active")>>)

DataInputs ==
    {SampleData,
     Arr(<<>>),
     Arr(<<Record("Jane", "active"), ShadowRecord>>),
     Str("invalid"),
     Null}

ActiveCriteria == Arr(<<Obj(<< <<"status", Str("active")>> >>)>>)

\* A transform whose first computed field is a function that throws
ThrowingTransform ==
    Obj(<< <<"computed", Obj(<< <<"failed", Fn("boom")>>,
                                <<"isActive", Fn("isActive")>> >>)>> >>)

\* For each key a condition of the model can hold, the configs it can have:
\* valid ones, ones validate rejects (include null, limit -1) and a valid
\* one on which execute throws (the second transform).
ConfigChoices ==
    [include |-> {ActiveCriteria},
     exclude |-> {Obj(<< <<"name", Str("Jane")>> >>)},
     sortBy |-> {Arr(<<Str("name")>>)},
     transform |-> {Obj(<< <<"fields", Arr(<<Str("name")>>)>> >>),
                    ThrowingTransform,
                    Obj(<< <<"computed", Obj(<< <<"hasOwnProperty", Str("x")>> >>)>>,
                           <<"rename", Obj(<< <<"name", Str("fullName")>> >>)>> >>)},
     limit |-> {Num(1), Num(-1)},
     bogusRule |-> {Obj(<<>>)}]

ConditionKeys == DOMAIN ConfigChoices

\* The condition objects with n keys: every order of n distinct keys, every
\* choice of their configs.
ConditionsOfSize(n) ==
    LET keySeqs == {ks \in [1..n -> ConditionKeys] :
                        \A i, j \in 1..n : i # j => ks[i] # ks[j]}
        allConfigs == UNION {ConfigChoices[k] : k \in ConditionKeys}
    IN  UNION {{Obj([i \in 1..n |-> <<ks[i], cs[i]>>]) :
                    cs \in {f \in [1..n -> allConfigs] :
                                \A i \in 1..n : f[i] \in ConfigChoices[ks[i]]}} :
               ks \in keySeqs}

ConditionInputs ==
    UNION {ConditionsOfSize(n) : n \in 0..MaxKeys}
        \cup {Null, Str("limit"), Arr(<<Num(1)>>)}

(***************************************************************************)
(* Specification of the registry and the DataProcessor calls               *)
(***************************************************************************)
\* No QuestionnaireEngine, AsteroidFinderEngine, PathAnalyzerEngine or
\* AsteroidFinderApp was constructed.
EnginesUntouched ==
    /\ engine = Undefined
    /\ finder = Undefined
    /\ analyzer = Undefined
    /\ app = Undefined

Init ==
    /\ EnginesUntouched
    /\ rules = <<>>
    /\ pc = "idle"
    /\ op = "none"
    /\ data = Undefined
    /\ condition = Undefined
    /\ result = Undefined
    /\ ruleEntries = <<>>
    /\ appliedRules = <<>>
    /\ executeLog = <<>>
    /\ ret = Undefined
    /\ call = Undefined
    /\ out = <<>>

Next ==
    \/ AutoRegisterRules
    \/ \E cls \in DOMAIN RuleClasses : RegisterRule(cls)
    \/ \E type \in ConditionKeys : UnregisterRule(type)
    \/ ClearRules
    \/ pc = "idle" /\ op = "none"
          /\ \E d \in DataInputs, c \in ConditionInputs : ProcessDataCall(d, c)
    \/ ExecuteNextRule
    \/ ProcessDataReturn
    \/ pc = "idle" /\ op = "none"
          /\ \E c \in ConditionInputs : ValidateConditionCall(c)
    \/ ClearResults

Spec == Init /\ [][Next]_vars

(***************************************************************************)
(* Properties of processData and validateCondition (specification Spec)    *)
(***************************************************************************)
\* The priorities the documentation gives the five rules.
DocumentedPriority ==
    [include |-> 1, exclude |-> 2, sortBy |-> 10, transform |-> 15, limit |-> 20]

\* processData has returned and the value it returned is in ret.
Returned == op = "processData" /\ pc = "idle"

\* processData has returned a value without metadata.error.
Succeeded == Returned /\ ret.metadata.error = Undefined

\* The keys of the condition of the call, in the order of the object.
ConditionKeysOf(c) == [i \in 1..Len(Entries(c)) |-> Entries(c)[i][1]]

\* The rule types whose execute has been called, in the order of the calls.
ExecutedTypes == [i \in 1..Len(executeLog) |-> executeLog[i].type]

\* The types metadata.appliedRules of a returned value lists, in order.
AppliedTypes(value) ==
    [i \in 1..Len(value.metadata.appliedRules) |->
        value.metadata.appliedRules[i].type]

Range(seq) == {seq[i] : i \in 1..Len(seq)}

\* What processData returned as result when it succeeded: the output of the
\* last rule executed, the clone of data when no rule was executed.
LastOutput ==
    IF executeLog = <<>> THEN deepClone(data).val
    ELSE executeLog[Len(executeLog)].outcome.val

\* The array holding the first record of d whose status is 'active', the
\* empty array when d has none.
FirstActive(d) ==
    LET active == {i \in 1..Len(d.v) : GetProp(d.v[i], "status") = Str("active")}
    IN  IF active = {} THEN Arr(<<>>)
        ELSE Arr(<<d.v[CHOOSE i \in active : \A j \in active : i <= j]>>)

\* C1: processData executes the registered rules named in the condition in
\* strictly ascending priority (include 1, exclude 2, sortBy 10, transform 15,
\* limit 20), each on the output of the one before it (the first on the clone
\* of data), whatever the order of the keys; a call that succeeds has executed
\* every registered key, lists them in that order in metadata.appliedRules and
\* returns the last output; {limit: 1, include: [{status: 'active'}]} returns
\* the first record whose status is 'active'.
RulesRunInPriorityOrder ==
    /\ \A i \in 1..Len(executeLog) :
        /\ executeLog[i].type \in DOMAIN DocumentedPriority
        /\ rules[executeLog[i].type].priority
                = DocumentedPriority[executeLog[i].type]
        /\ executeLog[i].input =
                IF i = 1 THEN deepClone(data).val
                ELSE executeLog[i - 1].outcome.val
        /\ i > 1 => /\ executeLog[i - 1].outcome.ok
                    /\ DocumentedPriority[executeLog[i - 1].type]
                            < DocumentedPriority[executeLog[i].type]
    /\ Succeeded =>
        /\ Range(ExecutedTypes)
                = {k \in Range(ConditionKeysOf(condition)) : hasRule(k)}
        /\ AppliedTypes(ret) = ExecutedTypes
        /\ \A i \in 1..Len(ret.metadata.appliedRules) :
                ret.metadata.appliedRules[i].priority
                    = DocumentedPriority[ExecutedTypes[i]]
        /\ ret.result = LastOutput
    /\ (/\ Succeeded
        /\ Range(ConditionKeysOf(condition)) = {"limit", "include"}
        /\ hasRule("limit") /\ hasRule("include")
        /\ GetProp(condition, "limit") = Num(1)
        /\ GetProp(condition, "include") = ActiveCriteria)
       => ret.result = FirstActive(data)

\* A call with limit before include in the condition has run include, then
\* limit, and returned the first active record of the sample data.
LimitAfterIncludeReached ==
    /\ Succeeded
    /\ data = SampleData
    /\ ConditionKeysOf(condition) = <<"limit", "include">>
    /\ ExecutedTypes = <<"include", "limit">>
    /\ AppliedTypes(ret) = <<"include", "limit">>
    /\ ret.result = Arr(<<Record("Jane", "active")>>)

\* The value the claims give for a call that fails.
FailureValue(inputCount, message) ==
    [result |-> Arr(<<>>),
     metadata |-> [inputCount |-> inputCount,
                   outputCount |-> 0,
                   appliedRules |-> <<>>,
                   error |-> Str(message)]]

\* C2: processData never throws to its caller: every call returns a value
\* {result, metadata} with an array as result; when data is not an array or
\* the condition is not an object, result is the empty array, metadata.error
\* is 'Data must be an array' / 'Condition must be an object', outputCount is
\* 0, appliedRules is empty and inputCount is data.length for an array, 0
\* otherwise.
ProcessDataAlwaysReturns ==
    /\ op = "processData" => pc \in {"idle", "executing"}
    /\ Returned =>
        /\ DOMAIN ret = {"result", "metadata"}
        /\ IsArray(ret.result)
        /\ DOMAIN ret.metadata
                = {"inputCount", "outputCount", "appliedRules", "error"}
        /\ ret.metadata.error = Undefined \/ ret.metadata.error.t = "string"
        /\ ret.metadata.outputCount = Len(ret.result.v)
        /\ ret.metadata.inputCount = IF IsArray(data) THEN Len(data.v) ELSE 0
        /\ ~IsArray(data) => ret = FailureValue(0, "Data must be an array")
        /\ (IsArray(data) /\ (~Truthy(condition) \/ TypeOf(condition) # "object"))
            => ret = FailureValue(Len(data.v), "Condition must be an object")

\* A call with an array of three records and a condition that is not an
\* object has returned the failure value with inputCount 3.
InvalidConditionReached ==
    /\ Returned
    /\ data = SampleData
    /\ condition = Str("limit")
    /\ ret = FailureValue(3, "Condition must be an object")

\* The stages of the returned call: its registered entries by priority.
Stages == SortByPriority(RegisteredEntries(condition))

\* The number of stages of the returned call that ran to their end.
Completed == Len(SelectSeq(executeLog, LAMBDA e : e.outcome.ok))

\* processData has returned from a call that got as far as its for-loop.
ReturnedFromLoop ==
    /\ Returned
    /\ IsArray(data)
    /\ Truthy(condition) /\ TypeOf(condition) = "object"
    /\ deepClone(data).ok

\* C3: processData is all-or-nothing. The stages that ran to their end are
\* the first ones by priority and their configs passed validation; when a
\* stage is left (its config fails validation or its execute threw), result
\* is the empty array, outputCount is 0, appliedRules is empty and
\* metadata.error is 'Failed to execute <type> rule: ...' for that stage,
\* whatever the stages before it returned; a result that is not empty is the
\* output of the last stage of a call in which every stage ran.
AllOrNothing ==
    /\ ReturnedFromLoop =>
        /\ Completed <= Len(Stages)
        /\ \A i \in 1..Completed :
            /\ executeLog[i].outcome.ok
            /\ executeLog[i].type = Stages[i].type
            /\ RuleValidate(rules[Stages[i].type], Stages[i].config).isValid
        /\ IF Completed = Len(Stages)
           THEN /\ Len(executeLog) = Completed
                /\ ret.metadata.error = Undefined
                /\ ret.result = LastOutput
           ELSE LET failed == Stages[Completed + 1]
                    validated == RuleValidate(rules[failed.type], failed.config)
                    threw == /\ Len(executeLog) = Completed + 1
                             /\ executeLog[Completed + 1].type = failed.type
                             /\ ~executeLog[Completed + 1].outcome.ok
                IN  /\ ~validated.isValid \/ threw
                    /\ ret = FailureValue(Len(data.v),
                            "Failed to execute " \o failed.type \o " rule: "
                            \o (IF ~validated.isValid
                                THEN "Rule validation failed: "
                                        \o Join(validated.errors)
                                ELSE executeLog[Completed + 1].outcome.err))
    /\ (Returned /\ ret.result # Arr(<<>>)) =>
        /\ Succeeded
        /\ Completed = Len(Stages)
        /\ ret.result = LastOutput

\* include has returned two of the three sample records, then the config of
\* limit failed validation: the call returned the failure value.
FailureAfterIncludeReached ==
    /\ Returned
    /\ data = SampleData
    /\ Len(executeLog) = 1
    /\ executeLog[1].type = "include"
    /\ executeLog[1].outcome = Ok(Arr(<<Record("Jane", "active"),
                                        Record("Bob", "active")>>))
    /\ ret = FailureValue(3, "Failed to execute limit rule: Rule validation "
                \o "failed: Limit rule count must be a non-negative integer")

\* The condition without the keys that have no registered rule.
Strip(c) == Obj(SelectSeq(c.v, LAMBDA e : hasRule(e[1])))

\* The keys of the condition of the call that have a registered rule.
RegisteredKeys == {k \in Range(ConditionKeysOf(condition)) : hasRule(k)}

\* C5: processData ignores the keys of the condition that have no registered
\* rule: the value returned is a value the call returns for the condition
\* without those keys, a condition with no registered key succeeds with the
\* clone of data, no ignored key is in metadata.appliedRules, and a call that
\* succeeds lists exactly one entry for each key that has a registered rule.
UnregisteredKeysIgnored ==
    (Returned /\ condition.t = "object") =>
        /\ ret \in processData(data, Strip(condition))
        /\ (IsArray(data) /\ deepClone(data).ok /\ RegisteredKeys = {})
            => ret = Success(data, deepClone(data).val, <<>>)
        /\ \A k \in Range(ConditionKeysOf(condition)) :
                ~hasRule(k) => k \notin Range(AppliedTypes(ret))
        /\ Succeeded =>
            /\ Range(AppliedTypes(ret)) = RegisteredKeys
            /\ Len(ret.metadata.appliedRules) = Cardinality(RegisteredKeys)

\* A call whose condition names bogusRule before limit has succeeded with the
\* first sample record and limit as its one applied rule.
BogusRuleIgnoredReached ==
    /\ Succeeded
    /\ data = SampleData
    /\ ConditionKeysOf(condition) = <<"bogusRule", "limit">>
    /\ AppliedTypes(ret) = <<"limit">>
    /\ ret.result = Arr(<<Record("John", "inactive")>>)

RECURSIVE Concat(_)
Concat(seqs) == IF seqs = <<>> THEN <<>> ELSE Head(seqs) \o Concat(Tail(seqs))

\* The errors validateCondition is to collect for the condition of the call,
\* in the order of its keys, the error for a key without a registered rule
\* being unknownPrefix followed by the key.
ErrorsToCollect(unknownPrefix) ==
    LET es == Entries(condition)
        ForKey(i) ==
            IF ~hasRule(es[i][1]) THEN <<unknownPrefix \o es[i][1]>>
            ELSE LET errs == RuleValidate(rules[es[i][1]], es[i][2]).errors
                 IN  [j \in 1..Len(errs) |-> es[i][1] \o ": " \o errs[j]]
    IN  Concat([i \in 1..Len(es) |-> ForKey(i)])

ValidationAggregated(unknownPrefix) ==
    op = "validateCondition" =>
        /\ executeLog = <<>>
        /\ ret.isValid <=> (ret.errors = <<>>)
        /\ (Truthy(condition) /\ TypeOf(condition) = "object") =>
            /\ ret.errors = ErrorsToCollect(unknownPrefix)
            /\ "bogusRule" \in Range(ConditionKeysOf(condition)) =>
                /\ ~ret.isValid
                /\ (unknownPrefix \o "bogusRule") \in Range(ret.errors)

\* C6 as stated: validateCondition executes no rule and collects, over all
\* keys of the condition, 'unknown rule type: <key>' for each key without a
\* registered rule and each error of a registered rule's validate prefixed by
\* the rule type; isValid is true exactly when no error was collected.
ValidationAggregatedLowerCase == ValidationAggregated("unknown rule type: ")

\* C6 with the message the code builds: validateCondition executes no rule
\* and collects, over all keys of the condition, 'Unknown rule type: <key>'
\* for each key without a registered rule and each error of a registered
\* rule's validate prefixed by the rule type; isValid is true exactly when no
\* error was collected.
ValidationAggregatedAsBuilt == ValidationAggregated("Unknown rule type: ")

\* validateCondition has returned for a condition that names bogusRule
\* before limit with an invalid count: both errors are collected.
UnknownAndInvalidReached ==
    /\ op = "validateCondition"
    /\ condition.t = "object"
    /\ ConditionKeysOf(condition) = <<"bogusRule", "limit">>
    /\ hasRule("limit")
    /\ ~ret.isValid
    /\ ret.errors = <<"Unknown rule type: bogusRule",
                      "limit: Limit rule count must be a non-negative integer">>

(***************************************************************************)
(* A computed field whose function throws (specification Spec)             *)
(***************************************************************************)
\* C14: a computed-field function that throws is handled inside
\* TransformRule: whenever processData runs the transform whose first
\* computation throws, execute returns an array with one record per input
\* record, each with that field null, the computed field after it set from
\* the record and the record's own fields kept; and unless a limit stage
\* follows, the call returns that array without metadata.error.
ComputedThrowHandled ==
    \A i \in 1..Len(executeLog) :
        (/\ executeLog[i].type = "transform"
         /\ GetProp(condition, "transform") = ThrowingTransform)
        => LET input == executeLog[i].input.v
               outcome == executeLog[i].outcome
           IN  /\ outcome.ok
               /\ Len(outcome.val.v) = Len(input)
               /\ \A j \in 1..Len(input) :
                    /\ GetProp(outcome.val.v[j], "failed") = Null
                    /\ GetProp(outcome.val.v[j], "isActive")
                        = Bool(GetProp(input[j], "status") = Str("active"))
                    /\ \A key \in Range(Keys(input[j])) :
                        GetProp(outcome.val.v[j], key) = GetProp(input[j], key)
               /\ (Returned /\ ~HasOwn(condition, "limit"))
                    => /\ ret.metadata.error = Undefined
                       /\ ret.result = outcome.val

\* processData has returned the three sample records, each with the null
\* field and the computed one, for a condition that holds only the transform
\* whose first computation throws.
ComputedThrowReached ==
    /\ Returned
    /\ data = SampleData
    /\ condition = Obj(<< <<"transform", ThrowingTransform>> >>)
    /\ Succeeded
    /\ Len(ret.result.v) = 3
    /\ \A j \in 1..3 : GetProp(ret.result.v[j], "failed") = Null
    /\ GetProp(ret.result.v[2], "isActive") = Bool(TRUE)

(***************************************************************************)
(* The objects a call writes to. An array argument is ArgumentRef, its     *)
(* i-th element ElementRef(i); every object the call creates is NewObject. *)
(* A write is [target, value]: the object written and what it holds when   *)
(* the call returns.                                                       *)
(***************************************************************************)
ArgumentRef == <<"argument">>

ElementRef(i) == <<"argument", i>>

NewObject == <<"new">>

\* An array as a call holds it: its identity and those of its elements
ArgumentHandle(d) ==
    [self |-> ArgumentRef, items |-> [i \in 1..Len(d.v) |-> ElementRef(i)]]

\* [...array]: a new array of the same elements
SpreadHandle(h) == [self |-> NewObject, items |-> h.items]

\* deepClone(array): a new array of new elements
CloneHandle(h) ==
    [self |-> NewObject, items |-> [i \in 1..Len(h.items) |-> NewObject]]

\* data.filter(record => ...matchesRecord(record, config)): matchesRecord,
\* getNestedProperty and deepEquals assign to no object
FilterWrites(d, config, o) == {}

\* FunctionalUtils.sort with array.sort(comparator) on the array itself
SortWritesInPlace(d, config, o) ==
    IF o.ok THEN {[target |-> ArgumentHandle(d).self, value |-> o.val]} ELSE {}

\* FunctionalUtils.sort: [...array].sort(comparator) sorts the copy in place
SortWrites(d, config, o) ==
    IF o.ok
    THEN {[target |-> SpreadHandle(ArgumentHandle(d)).self, value |-> o.val]}
    ELSE {}

\* skip and take: array.slice assigns to no object
LimitWrites(d, config, o) == {}

\* transformRecord assigns to result (result[key] = ..., delete result[oldKey])
\* and to selectedFields; result is deepClone(record) or selectedFields
TransformWrites(d, config, o) ==
    IF o.ok
    THEN {[target |-> IF Truthy(GetProp(config, "fields"))
                      THEN NewObject
                      ELSE CloneHandle(ArgumentHandle(d)).items[i],
           value |-> o.val.v[i]] : i \in 1..Len(d.v)}
    ELSE {}

\* The writes of rule.execute(d, config) that returned or threw o
RuleWrites(rule, d, config, o) ==
    CASE rule.cls = "IncludeRule" -> FilterWrites(d, config, o)
      [] rule.cls = "ExcludeRule" -> FilterWrites(d, config, o)
      [] rule.cls = "SortRule" -> SortWrites(d, config, o)
      [] rule.cls = "LimitRule" -> LimitWrites(d, config, o)
      [] rule.cls = "TransformRule" -> TransformWrites(d, config, o)
      [] OTHER -> {}

\* The array rule.execute returned, in the frame of the caller that holds
\* its argument as h: filter, slice and the sorted copy are new arrays of
\* elements of the argument (an element being told by its value), map
\* returns a new array of new records.
OutputHandle(rule, h, d, o) ==
    [self |-> NewObject,
     items |-> [i \in 1..Len(o.val.v) |->
                    IF rule.cls = "TransformRule" THEN NewObject
                    ELSE h.items[CHOOSE j \in 1..Len(d.v) : d.v[j] = o.val.v[i]]]]

\* A reference of the callee's frame, in the frame of the caller that passed
\* the array it holds as h
Translate(h, ref) ==
    IF ref = ArgumentRef THEN h.self
    ELSE IF ref = NewObject THEN NewObject
    ELSE h.items[ref[2]]

\* The array argument d after a call that made these writes
ArgumentAfter(d, writes) ==
    IF \E w \in writes : w.target = ArgumentRef
    THEN (CHOOSE w \in writes : w.target = ArgumentRef).value
    ELSE Arr([i \in 1..Len(d.v) |->
                IF \E w \in writes : w.target = ElementRef(i)
                THEN (CHOOSE w \in writes : w.target = ElementRef(i)).value
                ELSE d.v[i]])

\* The writes of the k-th rule.execute of the processData call, in its own
\* frame
StageWrites(k) ==
    RuleWrites(getRule(executeLog[k].type), executeLog[k].input,
               GetProp(condition, executeLog[k].type), executeLog[k].outcome)

\* processData: let result = deepClone(data), then
\* result = executeRule(type, result, config) for each rule: the array the
\* k-th rule.execute is given
RECURSIVE StageHandle(_)
StageHandle(k) ==
    IF k = 1 THEN CloneHandle(ArgumentHandle(data))
    ELSE OutputHandle(getRule(executeLog[k - 1].type), StageHandle(k - 1),
                      executeLog[k - 1].input, executeLog[k - 1].outcome)

\* The writes of the processData call, in its frame
ProcessDataWrites ==
    UNION {{[target |-> Translate(StageHandle(k), w.target), value |-> w.value] :
                w \in StageWrites(k)} : k \in 1..Len(executeLog)}

Returns(label, value) == out' = out @@ (label :> value)

\* The call with this label was made and returned an array rather than threw.
ReturnedArray(label) == label \in DOMAIN out /\ out[label].ok = TRUE

\* rule.validate(config) on an instance of the class
ValidateCall(cls) ==
    /\ <<cls, "validate">> \notin DOMAIN out
    /\ Returns(<<cls, "validate">>, RuleValidate(RuleClasses[cls], call.config))
    /\ UNCHANGED <<call, pipelineVars, engineVars>>

\* rule.execute(data, config) with a config in which rule.validate finds no
\* error
ExecuteCall(cls) ==
    /\ <<cls, "execute">> \notin DOMAIN out
    /\ RuleValidate(RuleClasses[cls], call.config).errors = <<>>
    /\ \E o \in RuleExecute(RuleClasses[cls], call.data, call.config) :
            Returns(<<cls, "execute">>, o)
    /\ UNCHANGED <<call, pipelineVars, engineVars>>

\* rule.execute(rule.execute(data, config), config): the second call, on the
\* array the first one returned
ExecuteAgain(cls) ==
    /\ ReturnedArray(<<cls, "execute">>)
    /\ <<cls, "executeAgain">> \notin DOMAIN out
    /\ \E o \in RuleExecute(RuleClasses[cls], out[<<cls, "execute">>].val,
                            call.config) :
            Returns(<<cls, "executeAgain">>, o)
    /\ UNCHANGED <<call, pipelineVars, engineVars>>

\* new SortRule().execute(data, k2) for a config [k1, k2]
SortByLastKey ==
    /\ IsArray(call.config) /\ Len(call.config.v) = 2
    /\ <<"SortRule", "executeLast">> \notin DOMAIN out
    /\ \E o \in SortExecute(call.data, call.config.v[2]) :
            Returns(<<"SortRule", "executeLast">>, o)
    /\ UNCHANGED <<call, pipelineVars, engineVars>>

\* new SortRule().execute(byK2, k1) on the array the sort by k2 returned
SortByFirstKey ==
    /\ ReturnedArray(<<"SortRule", "executeLast">>)
    /\ <<"SortRule", "executeLastFirst">> \notin DOMAIN out
    /\ \E o \in SortExecute(out[<<"SortRule", "executeLast">>].val,
                            call.config.v[1]) :
            Returns(<<"SortRule", "executeLastFirst">>, o)
    /\ UNCHANGED <<call, pipelineVars, engineVars>>

\* The state of the registry and of DataProcessor when no call of them was
\* made.
PipelineUntouched ==
    /\ rules = <<>>
    /\ pc = "idle"
    /\ op = "none"
    /\ data = Undefined
    /\ condition = Undefined
    /\ result = Undefined
    /\ ruleEntries = <<>>
    /\ appliedRules = <<>>
    /\ executeLog = <<>>
    /\ ret = Undefined

\* The longest array of records of a direct call
MaxRecords == 3

\* The arrays of at most MaxRecords records of a set
ArraysOf(records) ==
    {Arr(a) : a \in UNION {[1..n -> records] : n \in 0..MaxRecords}}

(***************************************************************************)
(* Include and Exclude on the same records and criteria                    *)
(***************************************************************************)
FilterRecords ==
    {Record("John", "inactive"),
     Record("Jane", "active"),
     Obj(<< <<"name", Str("Bob")>>, <<"status", Str("active")>>,
            <<"user", Obj(<< <<"role", Str("admin")>> >>)>> >>),
     Obj(<< <<"name", Str("Eve")>> >>)}

\* Criteria specs: objects (AND of their properties) and arrays of objects
\* (OR of their elements)
CriteriaSpecs ==
    {Obj(<<>>),
     Obj(<< <<"status", Str("active")>> >>),
     Obj(<< <<"status", Str("active")>>, <<"name", Str("Jane")>> >>),
     Obj(<< <<"user.role", Str("admin")>> >>),
     Obj(<< <<"user", Obj(<< <<"role", Str("admin")>> >>)>> >>),
     Obj(<< <<"status", Undefined>> >>),
     Arr(<<>>),
     ActiveCriteria,
     Arr(<<Obj(<< <<"name", Str("John")>> >>),
           Obj(<< <<"status", Str("active")>> >>)>>),
     Arr(<<Obj(<<>>)>>)}

FilterInit ==
    /\ EnginesUntouched
    /\ PipelineUntouched
    /\ call \in {[data |-> d, config |-> c] :
                    d \in ArraysOf(FilterRecords), c \in CriteriaSpecs}
    /\ out = <<>>

FilterNext ==
    \/ \E cls \in {"IncludeRule", "ExcludeRule"} : ExecuteCall(cls)
    \/ \E cls \in {"IncludeRule", "ExcludeRule"} : ExecuteAgain(cls)

SpecFilter == FilterInit /\ [][FilterNext]_vars


\* The number of elements of an array of records that are the record r
Count(records, r) == Cardinality({i \in 1..Len(records) : records[i] = r})

\* C7: IncludeRule.execute(data, C) and ExcludeRule.execute(data, C)
\* partition data: both return an array, every record of data is in exactly
\* one of the two (as many times as it is in data), and neither holds a
\* record that is not in data.
IncludeExcludePartition ==
    ({<<"IncludeRule", "execute">>, <<"ExcludeRule", "execute">>} \subseteq DOMAIN out)
    => /\ out[<<"IncludeRule", "execute">>].ok
       /\ out[<<"ExcludeRule", "execute">>].ok
       /\ LET included == out[<<"IncludeRule", "execute">>].val.v
              excluded == out[<<"ExcludeRule", "execute">>].val.v
          IN  \A r \in Range(call.data.v) \cup Range(included) \cup Range(excluded) :
                /\ Count(included, r) + Count(excluded, r) = Count(call.data.v, r)
                /\ Count(included, r) = 0 \/ Count(excluded, r) = 0

\* Both rules have returned for an array of three records and an array of
\* two criteria, each with a part of the records.
PartitionReached ==
    /\ {<<"IncludeRule", "execute">>, <<"ExcludeRule", "execute">>} \subseteq DOMAIN out
    /\ Len(call.data.v) = 3
    /\ IsArray(call.config) /\ Len(call.config.v) = 2
    /\ out[<<"IncludeRule", "execute">>].val.v # <<>>
    /\ out[<<"ExcludeRule", "execute">>].val.v # <<>>

\* C8: Include and Exclude are idempotent: executing the rule again with the
\* same criteria on the array it returned returns that array.
IncludeExcludeIdempotent ==
    \A cls \in {"IncludeRule", "ExcludeRule"} :
        <<cls, "executeAgain">> \in DOMAIN out
        => out[<<cls, "executeAgain">>] = out[<<cls, "execute">>]

\* Both rules have been executed twice on an array of which each of them
\* keeps a part and drops a part.
ExecutedTwiceReached ==
    /\ \A cls \in {"IncludeRule", "ExcludeRule"} :
        /\ <<cls, "executeAgain">> \in DOMAIN out
        /\ out[<<cls, "executeAgain">>].val.v # <<>>
        /\ Len(out[<<cls, "executeAgain">>].val.v) < Len(call.data.v)
    /\ Len(out[<<"ExcludeRule", "execute">>].val.v) = 2


(***************************************************************************)
(* SortRule on records with the fields k1 and k2                           *)
(***************************************************************************)
SortRecord(k1, k2) == Obj(<< <<"k1", k1>>, <<"k2", k2>> >>)

SortRecords ==
    {SortRecord(Num(10), Str("a")),
     SortRecord(Num(5), Str("b")),
     SortRecord(Str("3"), Str("a")),
     SortRecord(Str("+5"), Str("b")),
     SortRecord(Str("+a"), Str("a")),
     SortRecord(Str("Infinity"), Str("b")),
     SortRecord(Str("Infinity"), Str("a"))}

SortConfigs ==
    {Str("k1"),
     Str("k2"),
     Arr(<<Str("k1"), Str("k2")>>),
     Arr(<<Str("k2"), Str("k1")>>),
     Arr(<<>>)}

SortInit ==
    /\ EnginesUntouched
    /\ PipelineUntouched
    /\ call \in {[data |-> d, config |-> c] :
                    d \in ArraysOf(SortRecords), c \in SortConfigs}
    /\ out = <<>>

SortNext ==
    \/ ExecuteCall("SortRule")
    \/ SortByLastKey
    \/ SortByFirstKey

SpecSort == SortInit /\ [][SortNext]_vars

\* The result of the multi-key comparator of the call on two records, as
\* Array.prototype.sort reads it
Compare(a, b) == SortCompare(SortKeys(call.config), a, b)

\* naturalSort returns 0 for the values of two records under every sort key
\* of the call
EqualOnEveryKey(a, b) ==
    \A i \in 1..Len(SortKeys(call.config)) :
        LET key == SortKeys(call.config)[i]
        IN  naturalSort(getNestedProperty(a, key, Undefined),
                        getNestedProperty(b, key, Undefined)) = Finite(0)

ContractData ==
    {SampleData,
     Arr(<<>>),
     Arr(<<Record("Jane", "active"), ShadowRecord>>),
     Arr(<<Obj(<< <<"name", Str("Bob")>>,
                  <<"user", Obj(<< <<"role", Str("admin")>> >>)>> >>)>>)}

ContractConfigs ==
    {Undefined, Null, Bool(TRUE), Fn("isActive"),
     Num(0), Num(1), Num(-1), NumFrac(1),
     Str(""), Str(" "), Str("name"),
     Obj(<<>>),
     Obj(<< <<"status", Str("active")>> >>),
     Obj(<< <<"count", Num(1)>>, <<"offset", Num(1)>> >>),
     Obj(<< <<"count", Num(0)>> >>),
     Obj(<< <<"count", NumFrac(1)>> >>),
     Obj(<< <<"offset", Num(-1)>> >>),
     Obj(<< <<"fields", Arr(<<Str("name"), Str("user.role")>>)>> >>),
     Obj(<< <<"fields", Arr(<<Num(1)>>)>>, <<"computed", Str("x")>>,
            <<"rename", Num(1)>> >>),
     Obj(<< <<"computed", Obj(<< <<"label", Str("{{name}} ({{status}})")>>,
                                 <<"isActive", Fn("isActive")>>,
                                 <<"failing", Fn("boom")>> >>)>>,
            <<"rename", Obj(<< <<"name", Str("fullName")>> >>)>> >>),
     Obj(<< <<"computed", Obj(<< <<"flag", Bool(TRUE)>> >>)>> >>),
     Obj(<< <<"computed", Obj(<< <<"hasOwnProperty", Str("x")>> >>)>>,
            <<"rename", Obj(<< <<"name", Str("fullName")>> >>)>> >>),
     Arr(<<>>),
     ActiveCriteria,
     Arr(<<Null>>),
     Arr(<<Str("name"), Str("status")>>),
     Arr(<<Str("name"), Str("")>>)}

ContractInit ==
    /\ EnginesUntouched
    /\ PipelineUntouched
    /\ call \in {[rule |-> cls, data |-> d, config |-> c] :
                    cls \in DOMAIN RuleClasses, d \in ContractData,
                    c \in ContractConfigs}
    /\ out = <<>>

ContractNext ==
    \/ ValidateCall(call.rule)
    \/ ExecuteCall(call.rule)

SpecContract == ContractInit /\ [][ContractNext]_vars

\* C4: for each of the five rules and every config, validate(config) returns
\* {isValid, errors, warnings} with isValid = (errors is empty), and execute
\* with a config in which validate finds no error returns an array, without
\* throwing, on any array of object records.
ValidatedConfigExecutes ==
    \A cls \in DOMAIN RuleClasses :
        /\ <<cls, "validate">> \in DOMAIN out =>
            /\ DOMAIN out[<<cls, "validate">>] = {"isValid", "errors", "warnings"}
            /\ out[<<cls, "validate">>].isValid
                    <=> (out[<<cls, "validate">>].errors = <<>>)
        /\ <<cls, "execute">> \in DOMAIN out =>
            /\ out[<<cls, "execute">>].ok
            /\ IsArray(out[<<cls, "execute">>].val)

(***************************************************************************)
(* LimitRule on arrays shorter than, as long as and longer than            *)
(* offset + count                                                          *)
(***************************************************************************)
\* The largest count and the largest offset of a limit config
MaxLimit == 4

LimitRecords ==
    {Record("John", "inactive"), Record("Jane", "active"),
     Obj(<< <<"name", Str("Eve")>> >>)}

\* A bare number, {count}, {count, offset}, and a count validate rejects
LimitConfigs ==
    {Num(n) : n \in 0..MaxLimit}
    \cup {Obj(<< <<"count", Num(n)>> >>) : n \in 0..MaxLimit}
    \cup {Obj(<< <<"count", Num(n)>>, <<"offset", Num(m)>> >>) :
            n \in 0..MaxLimit, m \in 0..MaxLimit}
    \cup {Obj(<< <<"count", Num(1)>>, <<"offset", Null>> >>), Num(-1)}

LimitInit ==
    /\ EnginesUntouched
    /\ PipelineUntouched
    /\ call \in {[data |-> d, config |-> c] :
                    d \in ArraysOf(LimitRecords), c \in LimitConfigs}
    /\ out = <<>>

LimitNext ==
    \/ ValidateCall("LimitRule")
    \/ ExecuteCall("LimitRule")

SpecLimit == LimitInit /\ [][LimitNext]_vars

\* The count N and the offset M of the limit config of the call
LimitCount ==
    IF TypeOf(call.config) = "number" THEN call.config.v
    ELSE GetProp(call.config, "count").v

LimitOffset ==
    IF TypeOf(call.config) = "number" \/ IsNullish(GetProp(call.config, "offset"))
    THEN 0
    ELSE GetProp(call.config, "offset").v

Min(a, b) == IF a < b THEN a ELSE b

Max(a, b) == IF a > b THEN a ELSE b

\* C11: LimitRule.execute on an array of length L with count N and offset M
\* returns, without an error, the records at the indices M .. M+N-1 that
\* exist, in input order: max(0, min(N, L-M)) records when M < L and none
\* otherwise, and none when N = 0.
LimitBoundary ==
    <<"LimitRule", "execute">> \in DOMAIN out
    => LET returned == out[<<"LimitRule", "execute">>]
           L == Len(call.data.v)
           N == LimitCount
           M == LimitOffset
           length == IF M < L THEN Max(0, Min(N, L - M)) ELSE 0
       IN  /\ returned.ok
           /\ IsArray(returned.val)
           /\ Len(returned.val.v) = length
           /\ \A i \in 1..length : returned.val.v[i] = call.data.v[M + i]
           /\ N = 0 => returned.val.v = <<>>

\* A limit whose offset is inside the array and whose count overruns its
\* end has returned the records that are left.
LimitOverrunReached ==
    /\ <<"LimitRule", "execute">> \in DOMAIN out
    /\ LimitOffset > 0
    /\ LimitOffset < Len(call.data.v)
    /\ LimitOffset + LimitCount > Len(call.data.v)
    /\ out[<<"LimitRule", "execute">>].ok
    /\ Len(out[<<"LimitRule", "execute">>].val.v) = Len(call.data.v) - LimitOffset

(***************************************************************************)
(* TransformRule: fields, computed and rename in one config                *)
(***************************************************************************)
TransformRecords ==
    {Record("John", "inactive"),
     Record("Jane", "active"),
     Obj(<< <<"name", Str("Bob")>>, <<"status", Str("active")>>,
            <<"user", Obj(<< <<"role", Str("admin")>> >>)>> >>),
     Obj(<< <<"name", Str("Eve")>> >>)}

\* isActive reads status, which every fields list of these configs drops;
\* email is in no record; boom throws.
TransformConfigs ==
    LET fields(names) == <<"fields", Arr([i \in 1..Len(names) |-> Str(names[i])])>>
        isActive == <<"isActive", Fn("isActive")>>
        label == <<"label", Str("{{name}} ({{status}})")>>
        boom == <<"failed", Fn("boom")>>
    IN  {Obj(<<>>),
         Obj(<<fields(<<"name", "status">>)>>),
         Obj(<<fields(<<"name", "email">>)>>),
         Obj(<<fields(<<"user.role", "name">>)>>),
         Obj(<<fields(<<>>), <<"computed", Obj(<<label>>)>> >>),
         Obj(<<fields(<<"name">>), <<"computed", Obj(<<isActive>>)>> >>),
         Obj(<<fields(<<"name">>), <<"computed", Obj(<<isActive, label>>)>>,
               <<"rename", Obj(<< <<"name", Str("fullName")>>,
                                  <<"isActive", Str("active")>> >>)>> >>),
         Obj(<< <<"computed", Obj(<<boom, isActive>>)>> >>),
         Obj(<<fields(<<"name">>), <<"computed", Obj(<<boom, label>>)>>,
               <<"rename", Obj(<< <<"failed", Str("error")>> >>)>> >>),
         Obj(<< <<"rename", Obj(<< <<"name", Str("fullName")>>,
                                   <<"email", Str("emailAddress")>> >>)>> >>)}

TransformInit ==
    /\ EnginesUntouched
    /\ PipelineUntouched
    /\ call \in {[data |-> d, config |-> c] :
                    d \in ArraysOf(TransformRecords), c \in TransformConfigs}
    /\ out = <<>>

TransformNext ==
    \/ ValidateCall("TransformRule")
    \/ ExecuteCall("TransformRule")

SpecTransform == TransformInit /\ [][TransformNext]_vars

\* The parts of the transform config of the call
ListedFields ==
    IF HasOwn(call.config, "fields")
    THEN {GetProp(call.config, "fields").v[i].v :
            i \in 1..Len(GetProp(call.config, "fields").v)}
    ELSE {}

ComputedEntries ==
    IF HasOwn(call.config, "computed")
    THEN Range(GetProp(call.config, "computed").v) ELSE {}

RenameEntries ==
    IF HasOwn(call.config, "rename")
    THEN Range(GetProp(call.config, "rename").v) ELSE {}

\* The name a field has after the renames (no config of the model renames a
\* field twice or onto another field)
FinalKey(key) ==
    IF \E e \in RenameEntries : e[1] = key
    THEN (CHOOSE e \in RenameEntries : e[1] = key)[2].v
    ELSE key

\* The text a template substitutes for a field of the record
FieldText(record, field) ==
    IF HasOwn(record, field) THEN GetProp(record, field).v ELSE ""

\* What a computation of the model yields on the record it is given: the
\* comparison of its status, the substituted template, null for the one that
\* throws
ExpectedValue(computation, record) ==
    IF computation = Fn("isActive")
    THEN Bool(HasOwn(record, "status") /\ GetProp(record, "status") = Str("active"))
    ELSE IF computation = Fn("boom") THEN Null
    ELSE Str(FieldText(record, "name") \o " (" \o FieldText(record, "status") \o ")")

\* C12: TransformRule processes each record in the order fields -> computed
\* -> rename: with fields present the output holds (under their final names)
\* only listed and computed fields, a listed field is in it exactly when its
\* path resolves in the record, with the value it has there, and is never
\* null for being missing; every computed field holds what its computation
\* yields on the original record, dropped fields included; every renamed
\* field, selected or computed, is under its new name and not its old one.
TransformOrder ==
    (<<"TransformRule", "execute">> \in DOMAIN out
        /\ out[<<"TransformRule", "execute">>].ok)
    => LET returned == out[<<"TransformRule", "execute">>].val.v
           computedKeys == {e[1] : e \in ComputedEntries}
       IN  /\ Len(returned) = Len(call.data.v)
           /\ \A i \in 1..Len(returned) :
                LET record == call.data.v[i]
                    output == returned[i]
                IN  /\ HasOwn(call.config, "fields")
                        => /\ \A key \in Range(Keys(output)) :
                                \E k \in ListedFields \cup computedKeys :
                                    key = FinalKey(k)
                           /\ \A f \in ListedFields \ computedKeys :
                                LET value == getNestedProperty(record, f, Undefined)
                                IN  IF value = Undefined
                                    THEN ~HasOwn(output, FinalKey(f))
                                    ELSE /\ HasOwn(output, FinalKey(f))
                                         /\ GetProp(output, FinalKey(f)) = value
                    /\ \A e \in ComputedEntries :
                        /\ HasOwn(output, FinalKey(e[1]))
                        /\ GetProp(output, FinalKey(e[1])) = ExpectedValue(e[2], record)
                    /\ \A e \in RenameEntries : ~HasOwn(output, e[1])

\* A config with fields, computed and rename has been executed: the record
\* without a status field lost nothing but got a false isActive, the active
\* one got a true isActive computed from the status that fields dropped, both
\* under the new names.
FieldsComputedRenameReached ==
    /\ <<"TransformRule", "execute">> \in DOMAIN out
    /\ call.data = Arr(<<Obj(<< <<"name", Str("Eve")>> >>), Record("Jane", "active")>>)
    /\ HasOwn(call.config, "fields") /\ HasOwn(call.config, "rename")
    /\ out[<<"TransformRule", "execute">>]
        = Ok(Arr(<<Obj(<< <<"label", Str("Eve ()")>>,
                          <<"fullName", Str("Eve")>>,
                          <<"active", Bool(FALSE)>> >>),
                   Obj(<< <<"label", Str("Jane (active)")>>,
                          <<"fullName", Str("Jane")>>,
                          <<"active", Bool(TRUE)>> >>)>>))

(***************************************************************************)
(* TransformRule with a fields list naming every field of the record       *)
(***************************************************************************)
\* The greatest number of fields of a record of the round trip
MaxFields == 2

\* Field names, one of them holding a dot, and JSON values: a string, null,
\* a nested object
FieldNames == {"name", "user", "user.role"}

FieldValues == {Str("Jane"), Null, Obj(<< <<"role", Str("admin")>> >>)}

\* The records of at most MaxFields fields, in every order of their keys
RoundTripRecords ==
    UNION {{Obj([i \in 1..n |-> <<ks[i], vs[i]>>]) :
                ks \in {f \in [1..n -> FieldNames] :
                            \A i, j \in 1..n : i # j => f[i] # f[j]},
                vs \in [1..n -> FieldValues]} :
           n \in 0..MaxFields}

\* {fields: [...]} naming every field of the record, in any order
AllFieldsConfigs(record) ==
    {Obj(<< <<"fields", Arr([i \in 1..Len(record.v) |-> Str(Keys(record)[p[i]])])>> >>) :
        p \in Permutations(1..Len(record.v))}

RoundTripInit ==
    /\ EnginesUntouched
    /\ PipelineUntouched
    /\ call \in UNION {{[data |-> Arr(<<r>>), config |-> c] :
                            c \in AllFieldsConfigs(r)} :
                       r \in RoundTripRecords}
    /\ out = <<>>

SpecRoundTrip == RoundTripInit /\ [][TransformNext]_vars

\* C13: TransformRule with {fields: <all field names of r>} and no computed
\* or rename returns a record deep-equal to r, for every record r: with null
\* values, with nested objects, with field names that hold a dot.
TransformRoundTrip ==
    <<"TransformRule", "execute">> \in DOMAIN out
    => /\ out[<<"TransformRule", "execute">>].ok
       /\ Len(out[<<"TransformRule", "execute">>].val.v) = 1
       /\ deepEquals(out[<<"TransformRule", "execute">>].val.v[1], call.data.v[1])

(***************************************************************************)
(* RuleRegistry called directly: registerRule, unregisterRule, clearRules  *)
(* in any order. `out` keeps, for each type, the instance registerRule was *)
(* last given and the rule getRule(type) returned before that call, and    *)
(* what the last unregisterRule found and returned.                        *)
(***************************************************************************)
\* The instances registered: two of them have the type include
RegistryInstances == {"IncludeRule", "Plain", "SortRule", "LimitRule", "Broken"}

\* The types asked for: those of the instances and one never registered
RegistryTypes == {RuleInstances[cls].type : cls \in RegistryInstances} \cup {"bogusRule"}

\* RuleRegistry.registerRule(ruleInstance)
RegisterRuleCall(cls) ==
    /\ rules' = registerRule(RuleInstances[cls])
    /\ out' = (<<"registerRule", RuleInstances[cls].type>> :>
                    [instance |-> RuleInstances[cls],
                     replaced |-> getRule(RuleInstances[cls].type)])
                @@ out
    /\ UNCHANGED <<pc, op, data, condition, result, ruleEntries, appliedRules,
                   executeLog, ret, call, engineVars>>

\* const returned = RuleRegistry.unregisterRule(type), followed by
\* RuleRegistry.hasRule(type)
UnregisterRuleCall(type) ==
    /\ rules' = unregisterRule(type).rules
    /\ out' = (<<"unregisterRule", "last">> :>
                    [type |-> type,
                     registered |-> hasRule(type),
                     returned |-> unregisterRule(type).returned,
                     hasRuleAfter |-> type \in DOMAIN unregisterRule(type).rules])
                @@ out
    /\ UNCHANGED <<pc, op, data, condition, result, ruleEntries, appliedRules,
                   executeLog, ret, call, engineVars>>

RegistryInit ==
    /\ EnginesUntouched
    /\ PipelineUntouched
    /\ call = Undefined
    /\ out = <<>>

RegistryNext ==
    \/ \E cls \in RegistryInstances : RegisterRuleCall(cls)
    \/ \E type \in RegistryTypes : UnregisterRuleCall(type)
    \/ ClearRules

SpecRegistry == RegistryInit /\ [][RegistryNext]_vars

\* C16: after any sequence of registerRule / unregisterRule / clearRules the
\* registry holds at most one rule per type; getRule(type) is the instance
\* last registered with the type, also when another one was registered
\* before; hasRule(type) is true exactly when getRule(type) is not null;
\* unregisterRule returned true exactly when the type was registered, and
\* hasRule(type) was false after it; getRulesByPriority returns every
\* registered rule once, in ascending priority.
RegistryOnePerType ==
    /\ \A type \in RegistryTypes :
        /\ hasRule(type) <=> getRule(type) # Null
        /\ hasRule(type)
            => /\ <<"registerRule", type>> \in DOMAIN out
               /\ getRule(type) = out[<<"registerRule", type>>].instance
    /\ <<"unregisterRule", "last">> \in DOMAIN out
        => /\ out[<<"unregisterRule", "last">>].returned
                = out[<<"unregisterRule", "last">>].registered
           /\ ~out[<<"unregisterRule", "last">>].hasRuleAfter
    /\ \A all \in getAllRules :
        \A i, j \in 1..Len(all) : i # j => all[i].type # all[j].type
    /\ \A sorted \in getRulesByPriority :
        /\ Range(sorted) = {rules[t] : t \in DOMAIN rules}
        /\ Len(sorted) = Cardinality(DOMAIN rules)
        /\ \A i, j \in 1..Len(sorted) :
            i < j => sorted[i].priority <= sorted[j].priority

\* The plain BaseRule instance was registered over IncludeRule's type, two
\* more rules are registered, and an unregisterRule of a registered type has
\* returned true.
OverwrittenReached ==
    /\ hasRule("include")
    /\ getRule("include") = RuleInstances["Plain"]
    /\ out[<<"registerRule", "include">>].replaced = RuleInstances["IncludeRule"]
    /\ Cardinality(DOMAIN rules) = 3
    /\ <<"unregisterRule", "last">> \in DOMAIN out
    /\ out[<<"unregisterRule", "last">>].returned

(***************************************************************************)
(* RuleRegistry.executeRule called directly, as the test 'RuleRegistry     *)
(* should execute rules' does, on registries of any content                *)
(***************************************************************************)
ExecuteRuleInstances == {"IncludeRule", "LimitRule", "Plain", "Broken"}

ExecuteRuleTypes == {"include", "limit", "broken", "bogusRule"}

\* Criteria (valid for include, not for limit), a count (valid for limit,
\* not for include), a negative count and null
ExecuteRuleConfigs == {ActiveCriteria, Num(1), Num(-1), Null}

\* try { RuleRegistry.executeRule(type, data, config) } catch ...: what the
\* call returned or threw, the calls of rule.execute it made, and the rule of
\* the type and the registry before and after it
ExecuteRuleCall(type) ==
    /\ pc = "idle"
    /\ UNCHANGED <<call, pipelineVars, engineVars>>
    /\ \E r \in executeRule(type, call.data, call.config) :
        out' = (<<"executeRule", "last">> :>
                    [type |-> type,
                     rule |-> getRule(type),
                     outcome |-> r.outcome,
                     executed |-> r.executed,
                     registryBefore |-> rules,
                     registryAfter |-> rules'])
               @@ out

ExecuteRuleInit ==
    /\ EnginesUntouched
    /\ PipelineUntouched
    /\ call \in {[data |-> d, config |-> c] :
                    d \in {SampleData, Arr(<<>>)}, c \in ExecuteRuleConfigs}
    /\ out = <<>>

ExecuteRuleNext ==
    \/ \E cls \in ExecuteRuleInstances : RegisterRule(cls)
    \/ \E type \in ExecuteRuleTypes : UnregisterRule(type)
    \/ \E type \in ExecuteRuleTypes : ExecuteRuleCall(type)

SpecExecuteRule == ExecuteRuleInit /\ [][ExecuteRuleNext]_vars

\* C17: executeRule(type, data, config) throws a 'not registered' error when
\* no rule has the type; throws a 'Rule validation failed' error, without a
\* call of execute, when the rule's validate reports errors; otherwise makes
\* one call rule.execute(data, config) and returns (or throws) what it does;
\* in the two failure cases the registry is as it was.
ExecuteRuleContract ==
    <<"executeRule", "last">> \in DOMAIN out
    => LET last == out[<<"executeRule", "last">>]
       IN  IF last.rule = Null
           THEN /\ last.outcome
                    = Throw("Rule type '" \o last.type \o "' is not registered")
                /\ last.executed = <<>>
                /\ last.registryAfter = last.registryBefore
           ELSE IF RuleValidate(last.rule, call.config).errors # <<>>
           THEN /\ last.outcome
                    = Throw("Rule validation failed: "
                            \o Join(RuleValidate(last.rule, call.config).errors))
                /\ last.executed = <<>>
                /\ last.registryAfter = last.registryBefore
           ELSE /\ last.outcome \in RuleExecute(last.rule, call.data, call.config)
                /\ last.executed = <<[type |-> last.type, input |-> call.data,
                                      outcome |-> last.outcome]>>

\* executeRule was called for a type without a rule while other rules were
\* registered, and threw.
NotRegisteredReached ==
    /\ <<"executeRule", "last">> \in DOMAIN out
    /\ out[<<"executeRule", "last">>].type = "bogusRule"
    /\ out[<<"executeRule", "last">>].registryBefore # <<>>
    /\ out[<<"executeRule", "last">>].outcome
        = Throw("Rule type 'bogusRule' is not registered")

(***************************************************************************)
(* A registered rule that does not implement execute: an instance of       *)
(* BaseRule itself, named in the condition of processData and run through  *)
(* RuleRegistry.executeRule                                                *)
(***************************************************************************)
BrokenInstances == {"Broken", "IncludeRule", "LimitRule"}

\* Conditions that name the rule, alone and with built-in rules
BrokenConditions ==
    {Obj(<< <<"broken", Obj(<<>>)>> >>),
     Obj(<< <<"include", ActiveCriteria>>, <<"broken", Obj(<<>>)>> >>),
     Obj(<< <<"broken", Obj(<<>>)>>, <<"limit", Num(1)>> >>)}

BrokenInit ==
    /\ EnginesUntouched
    /\ PipelineUntouched
    /\ call = [data |-> SampleData, config |-> Obj(<<>>)]
    /\ out = <<>>

BrokenNext ==
    \/ \E cls \in BrokenInstances : RegisterRule(cls)
    \/ ExecuteRuleCall("broken")
    \/ pc = "idle" /\ op = "none"
          /\ \E d \in {SampleData, Arr(<<>>)}, c \in BrokenConditions :
                ProcessDataCall(d, c)
    \/ ExecuteNextRule
    \/ ProcessDataReturn
    \/ ClearResults

SpecBroken == BrokenInit /\ [][BrokenNext]_vars

\* The error BaseRule.execute throws for the instance
NotImplemented == Throw("Rule Broken must implement execute method")

\* processData has returned from a call in which the rule was run
BrokenRuleRan ==
    /\ Returned
    /\ \E k \in 1..Len(executeLog) : executeLog[k].type = "broken"

\* C18 as stated: when the rule is registered and named in the config,
\* running it propagates the failure to the caller of processData as a
\* thrown error, and not as a structured result with metadata.error.
BrokenRulePropagates ==
    BrokenRuleRan => ret = NotImplemented

\* C18 as the code has it: execute of the rule throws 'Rule <name> must
\* implement execute method'; RuleRegistry.executeRule lets the error reach
\* its caller; processData catches it and returns the failure value, with
\* metadata.error 'Failed to execute <type> rule: ' and the message.
BrokenRuleReported ==
    /\ \A k \in 1..Len(executeLog) :
        executeLog[k].type = "broken" => executeLog[k].outcome = NotImplemented
    /\ (<<"executeRule", "last">> \in DOMAIN out
            /\ out[<<"executeRule", "last">>].rule # Null)
        => out[<<"executeRule", "last">>].outcome = NotImplemented
    /\ BrokenRuleRan
        => ret = FailureValue(Len(data.v),
                    "Failed to execute broken rule: Rule Broken must implement execute method")

\* processData has returned the failure value for a condition that names
\* the rule and include, and a direct executeRule of the rule has thrown.
BrokenRuleReached ==
    /\ BrokenRuleRan
    /\ HasOwn(condition, "include") /\ hasRule("include")
    /\ data = SampleData
    /\ ret.metadata.error # Undefined
    /\ <<"executeRule", "last">> \in DOMAIN out
    /\ ~out[<<"executeRule", "last">>].outcome.ok
    /\ out[<<"executeRule", "last">>].executed # <<>>

(***************************************************************************)
(* QuestionnaireEngine: answerQuestion, goBack and reset                   *)
(*                                                                         *)
(* A configuration is [startQuestion, questions]; questions and the        *)
(* answers of a question are kept as the entries of the JavaScript object, *)
(* in insertion order: <<id, [question, answers]>> and <<answer, next>>.   *)
(***************************************************************************)
\* The most answers the questionnaire keeps at a time
MaxAnswers == 3

\* object[key] for the entries of an object: undefined for a missing key
Lookup(entries, key) ==
    IF \E i \in 1..Len(entries) : entries[i][1] = key
    THEN entries[CHOOSE i \in 1..Len(entries) : entries[i][1] = key][2]
    ELSE Undefined

\* A question of a configuration
Question(text, answers) == [question |-> Str(text), answers |-> answers]

\* questionnaireConfig of questionnaire-config.js: for every question its
\* text and, for every answer, the id of the next question or null
questionnaireConfig ==
    [startQuestion |-> Str("q1"),
     questions |->
      << <<"q1", Question("What is your marital status?",
                << <<"Single", Str("q2")>>, <<"Married", Str("q3")>>,
                   <<"Divorced", Str("q2")>>, <<"Widowed", Str("q2")>> >>)>>,
         <<"q2", Question("Are you planning on getting married next year?",
                << <<"Yes", Null>>, <<"No", Null>>, <<"Maybe", Null>> >>)>>,
         <<"q3", Question("How long have you been married?",
                << <<"Less than a year", Str("q4")>>,
                   <<"1-5 years", Str("q5")>>,
                   <<"More than 5 years", Str("q6")>> >>)>>,
         <<"q4", Question("Have you celebrated your one year anniversary?",
                << <<"Yes", Null>>, <<"No", Null>>, <<"Planning to", Null>> >>)>>,
         <<"q5", Question("Do you have children?",
                << <<"Yes", Str("q7")>>, <<"No", Str("q8")>>,
                   <<"Planning to have", Str("q8")>> >>)>>,
         <<"q6", Question("Are you satisfied with your marriage?",
                << <<"Very satisfied", Str("q9")>>,
                   <<"Somewhat satisfied", Str("q10")>>,
                   <<"Not satisfied", Str("q11")>> >>)>>,
         <<"q7", Question("How many children do you have?",
                << <<"1", Null>>, <<"2", Null>>, <<"3 or more", Null>> >>)>>,
         <<"q8", Question("What are your future family plans?",
                << <<"Want children soon", Null>>,
                   <<"Want children later", Null>>,
                   <<"No children planned", Null>> >>)>>,
         <<"q9", Question("What contributes most to your satisfaction?",
                << <<"Communication", Null>>, <<"Shared values", Null>>,
                   <<"Emotional support", Null>>,
                   <<"Financial stability", Null>> >>)>>,
         <<"q10", Question("What could improve your marriage?",
                << <<"More quality time", Null>>,
                   <<"Better communication", Null>>,
                   <<"Financial improvements", Null>>,
                   <<"More romance", Null>> >>)>>,
         <<"q11", Question("Have you considered marriage counseling?",
                << <<"Yes, already doing it", Null>>,
                   <<"Yes, considering it", Null>>,
                   <<"No, not interested", Null>> >>)>> >>]

\* new QuestionnaireEngine(config): the fields the constructor sets
QuestionnaireEngine(config) ==
    [config |-> config,
     currentQuestionId |-> config.startQuestion,
     answers |-> <<>>,
     questionHistory |-> <<>>]

\* config.questions[id]: the question's data, or undefined for an id the
\* config has no question for (null and undefined included)
QuestionOf(config, id) ==
    IF id.t = "string" THEN Lookup(config.questions, id.v) ELSE Undefined

\* this.config.questions[this.currentQuestionId]
CurrentQuestion(this) == QuestionOf(this.config, this.currentQuestionId)

\* answerQuestion(answer): the value returned or the error thrown, and the
\* engine's fields afterwards
answerQuestion(this, answer) ==
    LET currentQuestion == CurrentQuestion(this) IN
    IF currentQuestion = Undefined
    THEN [outcome |-> Throw("Invalid question ID: " \o this.currentQuestionId.v),
          this |-> this]
    ELSE IF Lookup(currentQuestion.answers, answer) = Undefined
    THEN [outcome |-> Throw("Invalid answer \"" \o answer
                            \o "\" for question \""
                            \o this.currentQuestionId.v \o "\""),
          this |-> this]
    ELSE LET pushed ==
                 [this EXCEPT
                    !.answers = Append(@,
                        [questionId |-> this.currentQuestionId,
                         question |-> currentQuestion.question,
                         answer |-> answer]),
                    !.questionHistory = Append(@, this.currentQuestionId)]
             nextQuestionId == Lookup(currentQuestion.answers, answer)
         IN  IF nextQuestionId = Null
             THEN [outcome |-> Ok(FALSE),
                   this |-> [pushed EXCEPT !.currentQuestionId = Null]]
             ELSE [outcome |-> Ok(TRUE),
                   this |-> [pushed EXCEPT !.currentQuestionId = nextQuestionId]]

\* array.pop(): the array without its last element
Pop(array) == SubSeq(array, 1, Len(array) - 1)

\* goBack with the history popped without the answers
goBackKeepingAnswers(this) ==
    IF Len(this.questionHistory) = 0
    THEN [returned |-> FALSE, this |-> this]
    ELSE LET questionHistory == Pop(this.questionHistory)
         IN  [returned |-> TRUE,
              this |->
                [this EXCEPT
                    !.currentQuestionId =
                        IF Len(questionHistory) > 0
                        THEN questionHistory[Len(questionHistory)]
                        ELSE this.config.startQuestion,
                    !.questionHistory = questionHistory]]

\* goBack(): the value returned and the engine's fields afterwards
goBack(this) ==
    IF Len(this.questionHistory) = 0
    THEN [returned |-> FALSE, this |-> this]
    ELSE LET answers == Pop(this.answers)
             questionHistory == Pop(this.questionHistory)
         IN  [returned |-> TRUE,
              this |->
                [this EXCEPT
                    !.currentQuestionId =
                        IF Len(questionHistory) > 0
                        THEN questionHistory[Len(questionHistory)]
                        ELSE this.config.startQuestion,
                    !.answers = answers,
                    !.questionHistory = questionHistory]]

\* reset(): the engine's fields afterwards
reset(this) ==
    [this EXCEPT !.currentQuestionId = this.config.startQuestion,
                 !.answers = <<>>,
                 !.questionHistory = <<>>]

\* isComplete()
isComplete(this) == this.currentQuestionId = Null

\* getProgress(): the percentage as the fraction num / den
getProgress(this) ==
    LET totalQuestions == Len(this.config.questions)
        answeredQuestions == Len(this.answers)
    IN  IF isComplete(this) THEN [num |-> 100, den |-> 1]
        ELSE IF answeredQuestions * 100 < 95 * totalQuestions
             THEN [num |-> answeredQuestions * 100, den |-> totalQuestions]
             ELSE [num |-> 95, den |-> 1]

\* The answers a caller passes: the answers along the paths q1, q2 and
\* q1, q3, q5, q7 of the config, and a string that is no question's answer
AnswerChoices == {"Single", "Married", "1-5 years", "Yes", "1", "Other"}

\* engine.answerQuestion(answer).  The call is noted with its outcome and
\* the engine's fields before it; a call that stores an answer is also
\* noted under the answer's position.
AnswerQuestion(answer) ==
    /\ engine # Undefined
    /\ Len(engine.answers) < MaxAnswers
    /\ LET r == answerQuestion(engine, answer)
           noted == [before |-> engine, answer |-> answer,
                     outcome |-> r.outcome]
       IN
        /\ engine' = r.this
        /\ out' = IF r.outcome.ok = TRUE
                  THEN (<<"lastAnswerQuestion", "last">> :> noted)
                       @@ (<<"answerQuestion", Len(r.this.answers)>> :> noted)
                       @@ out
                  ELSE (<<"lastAnswerQuestion", "last">> :> noted) @@ out
    /\ UNCHANGED <<call, pipelineVars, finder, analyzer, app>>

\* engine.goBack(): notes the fields before and after the call, and what was
\* noted when the answer it removes was given
GoBack ==
    /\ engine # Undefined
    /\ LET r == goBack(engine) IN
        /\ engine' = r.this
        /\ out' = (<<"goBack", "last">> :>
                      [returned |-> r.returned,
                       before |-> engine,
                       after |-> r.this,
                       undone |->
                          IF Len(engine.answers) > 0
                          THEN out[<<"answerQuestion", Len(engine.answers)>>]
                          ELSE Undefined])
                  @@ [l \in DOMAIN out
                            \ {<<"answerQuestion", Len(engine.answers)>>,
                               <<"lastAnswerQuestion", "last">>}
                        |-> out[l]]
    /\ UNCHANGED <<call, pipelineVars, finder, analyzer, app>>

\* engine.reset(): what was noted about the calls before it is dropped
Reset ==
    /\ engine # Undefined
    /\ engine' = reset(engine)
    /\ out' = <<>>
    /\ UNCHANGED <<call, pipelineVars, finder, analyzer, app>>

QuestionnaireInit ==
    /\ PipelineUntouched
    /\ call = Undefined
    /\ out = <<>>
    /\ engine = QuestionnaireEngine(questionnaireConfig)
    /\ finder = Undefined
    /\ analyzer = Undefined
    /\ app = Undefined

QuestionnaireNext ==
    \/ \E answer \in AnswerChoices : AnswerQuestion(answer)
    \/ GoBack
    \/ Reset

SpecQuestionnaire == QuestionnaireInit /\ [][QuestionnaireNext]_vars

\* C19: a goBack() that returned true undid exactly the last answer: the
\* engine's currentQuestionId, answers and questionHistory are what they were
\* before the answerQuestion call that stored the answer it removed.
GoBackUndoesLastAnswer ==
    <<"goBack", "last">> \in DOMAIN out =>
        LET g == out[<<"goBack", "last">>] IN
        g.returned = TRUE => g.after = g.undone.before

\* C28: in every state reached by answerQuestion, goBack and reset, answers
\* and questionHistory have the same length, questionHistory[i] is
\* answers[i].questionId, currentQuestionId is null or the id of a question
\* of the config, and an answerQuestion call that threw left the engine's
\* fields as they were.
EngineStateConsistent ==
    /\ Len(engine.answers) = Len(engine.questionHistory)
    /\ \A i \in 1..Len(engine.answers) :
        engine.questionHistory[i] = engine.answers[i].questionId
    /\ \/ engine.currentQuestionId = Null
       \/ CurrentQuestion(engine) # Undefined
    /\ <<"lastAnswerQuestion", "last">> \in DOMAIN out =>
        LET a == out[<<"lastAnswerQuestion", "last">>] IN
        a.outcome.ok = FALSE => engine = a.before

\* An answer no question offers was refused after a goBack, and an answer
\* was refused by the completed questionnaire.
RefusedAfterGoBackReached ==
    /\ <<"lastAnswerQuestion", "last">> \in DOMAIN out
    /\ out[<<"lastAnswerQuestion", "last">>].outcome.ok = FALSE
    /\ Len(engine.answers) >= 1
    /\ \/ engine.currentQuestionId = Null
       \/ /\ <<"goBack", "last">> \in DOMAIN out
          /\ out[<<"goBack", "last">>].returned = TRUE
          /\ out[<<"lastAnswerQuestion", "last">>].answer = "Other"

(***************************************************************************)
(* AsteroidFinderEngine: gradientDescentAlgorithm                          *)
(*                                                                         *)
(* Every probe sits on integer coordinates, so a distance is the square    *)
(* root of an integer.  The model keeps the integer: Math.sqrt is strictly *)
(* increasing on the integers that occur (at most 3 * 100^2), so the       *)
(* comparisons of two distances are those of their squares.                *)
(***************************************************************************)
\* this.spaceSize
spaceSize == 100

\* const maxIterations of gradientDescentAlgorithm
maxIterations == 100

\* The value const stepSize of gradientDescentAlgorithm is initialised with
InitialStepSize == 5

\* The coordinates generateAsteroid draws from in the model: the corners,
\* the centre, and positions on and off the grid of steps of 5 around it
AsteroidCoordinates == {0, 48, 50, 55, 100}

Point(x, y, z) == [x |-> x, y |-> y, z |-> z]

\* new AsteroidFinderEngine(): the fields the constructor sets, and no
\* search running.  probes is the number of probes in this.probes.
AsteroidFinderEngine ==
    [asteroidLocation |-> Null,
     probes |-> 0,
     pc |-> "idle",
     current |-> Undefined,
     currentDistance |-> Undefined,
     stepSize |-> Undefined,
     iterations |-> Undefined,
     outcome |-> Undefined]

\* calculateDistance(p1, p2), squared
calculateDistance(p1, p2) ==
    (p1.x - p2.x) * (p1.x - p2.x) + (p1.y - p2.y) * (p1.y - p2.y)
        + (p1.z - p2.z) * (p1.z - p2.z)

\* getDistanceToAsteroid(probeCoords), squared; it throws when no asteroid
\* was generated
getDistanceToAsteroid(this, probeCoords) ==
    IF this.asteroidLocation = Null
    THEN Throw("Asteroid location not set")
    ELSE Ok(calculateDistance(probeCoords, this.asteroidLocation))

\* distance > tolerance, for tolerance = 0.1 and the squared distance d2
AboveTolerance(d2) == 100 * d2 > 1

\* Math.max(0, Math.min(this.spaceSize, v))
Clamp(v) ==
    IF v > spaceSize THEN spaceSize ELSE IF v < 0 THEN 0 ELSE v

\* The six positions the loop body probes from current, in the order of
\* `directions`
Directions(current, stepSize) ==
    << Point(Clamp(current.x + stepSize), current.y, current.z),
       Point(Clamp(current.x - stepSize), current.y, current.z),
       Point(current.x, Clamp(current.y + stepSize), current.z),
       Point(current.x, Clamp(current.y - stepSize), current.z),
       Point(current.x, current.y, Clamp(current.z + stepSize)),
       Point(current.x, current.y, Clamp(current.z - stepSize)) >>

\* The for-loop over the directions: bestMove and bestDistance after the
\* first n directions; a position replaces the best only when it is
\* strictly closer
RECURSIVE BestMove(_, _, _, _)
BestMove(this, current, stepSize, n) ==
    IF n = 0
    THEN [bestMove |-> Null, bestDistance |-> this.currentDistance]
    ELSE LET best == BestMove(this, current, stepSize, n - 1)
             newPos == Directions(current, stepSize)[n]
             distance == calculateDistance(newPos, this.asteroidLocation)
         IN  IF distance < best.bestDistance
             THEN [bestMove |-> newPos, bestDistance |-> distance]
             ELSE best

\* calculateAccuracy(foundLocation):
\* Math.max(0, Math.round((1 - distance / maxDistance) * 100)) with
\* maxDistance = sqrt(3 * spaceSize^2).  Math.round gives the largest
\* integer n with n - 0.5 <= (1 - distance / maxDistance) * 100, that is
\* with 4 * spaceSize^2 * distance^2 <= 3 * spaceSize^2 * (201 - 2n)^2 / 100^2.
calculateAccuracy(this, foundLocation) ==
    IF foundLocation = Null \/ this.asteroidLocation = Null
    THEN 0
    ELSE LET d2 == calculateDistance(foundLocation, this.asteroidLocation)
             Reaches(n) ==
                 4 * d2 * 100 * 100
                     <= 3 * spaceSize * spaceSize * (201 - 2 * n) * (201 - 2 * n)
         IN  IF ~Reaches(0) THEN 0
             ELSE CHOOSE n \in 0..100 :
                     Reaches(n) /\ (n = 100 \/ ~Reaches(n + 1))

\* The statements after the while loop: the result the promise resolves to
SearchResult(this) ==
    [algorithm |-> "Gradient Descent",
     location |-> this.current,
     probes |-> [count |-> this.probes],
     accuracy |-> calculateAccuracy(this, this.current)]

\* generateAsteroid(), once no search is running
GenerateAsteroid(x, y, z) ==
    /\ finder # Undefined
    /\ finder.pc # "searching"
    /\ finder' = [finder EXCEPT !.asteroidLocation = Point(x, y, z),
                                !.pc = "idle"]
    /\ UNCHANGED <<callVars, pipelineVars, engine, analyzer, app>>

\* gradientDescentAlgorithm() up to the first test of the while condition:
\* resetSearch, the probe at the centre, the locals
GradientDescentStart ==
    /\ finder # Undefined
    /\ finder.pc = "idle"
    /\ LET current == Point(spaceSize \div 2, spaceSize \div 2, spaceSize \div 2)
           distance == getDistanceToAsteroid(finder, current)
       IN  finder' =
             IF distance.ok = FALSE
             THEN [finder EXCEPT !.probes = 0,
                                 !.pc = "rejected",
                                 !.outcome = distance]
             ELSE [finder EXCEPT !.probes = 1,
                                 !.pc = "searching",
                                 !.current = current,
                                 !.currentDistance = distance.val,
                                 !.stepSize = InitialStepSize,
                                 !.iterations = 0,
                                 !.outcome = Undefined]
    /\ UNCHANGED <<callVars, pipelineVars, engine, analyzer, app>>

\* One pass of the while loop's body, up to the await at its end.  When no
\* direction improves and stepSize > 1 the body assigns to stepSize, which
\* is declared const: the assignment throws a TypeError and the promise of
\* gradientDescentAlgorithm is rejected.
GradientDescentStep ==
    /\ finder # Undefined
    /\ finder.pc = "searching"
    /\ finder.iterations < maxIterations
    /\ AboveTolerance(finder.currentDistance)
    /\ LET best == BestMove(finder, finder.current, finder.stepSize, 6)
           probed == [finder EXCEPT !.probes = @ + 6]
       IN  finder' =
             IF best.bestMove # Null
             THEN [probed EXCEPT !.current = best.bestMove,
                                 !.currentDistance = best.bestDistance,
                                 !.iterations = @ + 1]
             ELSE IF finder.stepSize > 1
             THEN [probed EXCEPT !.pc = "rejected",
                                 !.outcome =
                                    Throw("TypeError: Assignment to constant variable.")]
             ELSE [probed EXCEPT !.pc = "returned",
                                 !.outcome = Ok(SearchResult(probed))]
    /\ UNCHANGED <<callVars, pipelineVars, engine, analyzer, app>>

\* The while condition is false: the statements after the loop run and the
\* promise resolves
GradientDescentReturn ==
    /\ finder # Undefined
    /\ finder.pc = "searching"
    /\ ~(finder.iterations < maxIterations
         /\ AboveTolerance(finder.currentDistance))
    /\ finder' = [finder EXCEPT !.pc = "returned",
                                !.outcome = Ok(SearchResult(finder))]
    /\ UNCHANGED <<callVars, pipelineVars, engine, analyzer, app>>

FinderInit ==
    /\ PipelineUntouched
    /\ call = Undefined
    /\ out = <<>>
    /\ engine = Undefined
    /\ analyzer = Undefined
    /\ app = Undefined
    /\ finder = AsteroidFinderEngine

FinderNext ==
    \/ \E x, y, z \in AsteroidCoordinates : GenerateAsteroid(x, y, z)
    \/ GradientDescentStart
    \/ GradientDescentStep
    \/ GradientDescentReturn

SpecFinder == FinderInit /\ [][FinderNext]_vars

\* No direction improves on the current distance at the step size s
NoImprovement(this, s) == BestMove(this, this.current, s, 6).bestMove = Null

\* C20: with an asteroid at an integer position, gradientDescentAlgorithm
\* never ends in an error; it uses the step sizes 5, 2 and 1 only; and when
\* it has ended it returned a result with a location, and the distance is
\* within tolerance, or no direction improves at step size 1, or 100
\* iterations were made.
GradientDescentCompletes ==
    (finder # Undefined /\ finder.asteroidLocation # Null) =>
        /\ finder.pc # "rejected"
        /\ finder.pc = "searching" => finder.stepSize \in {5, 2, 1}
        /\ finder.pc = "returned" =>
            /\ finder.outcome.ok = TRUE
            /\ finder.outcome.val.location # Null
            /\ \/ ~AboveTolerance(finder.currentDistance)
               \/ finder.stepSize = 1 /\ NoImprovement(finder, 1)
               \/ finder.iterations = maxIterations

(***************************************************************************)
(* AsteroidFinderEngine: binarySearchAlgorithm                             *)
(***************************************************************************)
\* const maxIterations of binarySearchAlgorithm
maxIterationsBinary == 50

\* How far from a quarter point of the space an asteroid coordinate lies
MaxNear == 1

\* The asteroid coordinates of the binary search runs: the positions within
\* MaxNear of the borders, the centre and the quarter points of the space
BinaryCoordinates ==
    {c \in 0..spaceSize :
        \E m \in {0, spaceSize \div 4, spaceSize \div 2,
                  3 * (spaceSize \div 4), spaceSize} :
            c - m \in (0 - MaxNear)..MaxNear}

\* Math.floor((range[0] + range[1]) / 2)
Mid(range) == (range[1] + range[2]) \div 2

\* probe.distance < tolerance / probe.distance < 0.1, for the squared
\* distance d2
BelowTolerance(d2) == 100 * d2 < 1

RefineRangeSkippingMid(range, mid, below, above) ==
    IF below < above THEN <<range[1], mid>> ELSE <<mid + 1, range[2]>>

\* One axis of refineSearchRanges: the range after the comparison of the
\* distances probed below and above the midpoint
RefineRange(range, mid, below, above) ==
    IF below < above THEN <<range[1], mid>> ELSE <<mid, range[2]>>

\* refineSearchRanges: the six test points around the midpoint, and the
\* three ranges after the update
refineSearchRanges(this, xRange, yRange, zRange, midX, midY, midZ) ==
    LET Max0(v) == IF v < 0 THEN 0 ELSE v
        MinSpace(v) == IF v > spaceSize THEN spaceSize ELSE v
        testPoints ==
            << Point(Max0(midX - 1), midY, midZ),
               Point(MinSpace(midX + 1), midY, midZ),
               Point(midX, Max0(midY - 1), midZ),
               Point(midX, MinSpace(midY + 1), midZ),
               Point(midX, midY, Max0(midZ - 1)),
               Point(midX, midY, MinSpace(midZ + 1)) >>
        distances ==
            [i \in 1..6 |-> calculateDistance(testPoints[i], this.asteroidLocation)]
    IN  [xRange |-> RefineRange(xRange, midX, distances[1], distances[2]),
         yRange |-> RefineRange(yRange, midY, distances[3], distances[4]),
         zRange |-> RefineRange(zRange, midZ, distances[5], distances[6]),
         probes |-> 6]

\* The points preciseSearch visits, in the order of its three nested loops
PrecisePoints(xRange, yRange, zRange) ==
    LET xs == xRange[2] - xRange[1] + 1
        ys == yRange[2] - yRange[1] + 1
        zs == zRange[2] - zRange[1] + 1
    IN  IF xs <= 0 \/ ys <= 0 \/ zs <= 0 THEN <<>>
        ELSE [i \in 1..(xs * ys * zs) |->
                Point(xRange[1] + ((i - 1) \div (ys * zs)),
                      yRange[1] + (((i - 1) \div zs) % ys),
                      zRange[1] + ((i - 1) % zs))]

\* preciseSearch from the i-th point on, with the best location and the
\* minimum distance so far (a value above every squared distance in the
\* space stands for Infinity): the location returned and the number of
\* probes deployed
RECURSIVE PreciseFrom(_, _, _, _, _)
PreciseFrom(this, points, i, bestLocation, minDistance) ==
    IF i > Len(points)
    THEN [location |-> bestLocation, probes |-> Len(points)]
    ELSE LET distance == calculateDistance(points[i], this.asteroidLocation)
             closer == distance < minDistance
             best == IF closer THEN points[i] ELSE bestLocation
             min == IF closer THEN distance ELSE minDistance
         IN  IF BelowTolerance(distance)
             THEN [location |-> best, probes |-> i]
             ELSE PreciseFrom(this, points, i + 1, best, min)

preciseSearch(this, xRange, yRange, zRange) ==
    PreciseFrom(this, PrecisePoints(xRange, yRange, zRange), 1, Null,
                3 * spaceSize * spaceSize + 1)

\* The statements after the while loop of binarySearchAlgorithm
BinaryResult(this, location, probes) ==
    [algorithm |-> "Binary Search",
     location |-> location,
     probes |-> [count |-> probes],
     accuracy |-> calculateAccuracy(this, location)]

\* binarySearchAlgorithm() up to the first test of the while condition
BinarySearchStart ==
    /\ finder # Undefined
    /\ finder.pc = "idle"
    /\ finder' = [asteroidLocation |-> finder.asteroidLocation,
                  probes |-> 0,
                  pc |-> "searching",
                  xRange |-> <<0, spaceSize>>,
                  yRange |-> <<0, spaceSize>>,
                  zRange |-> <<0, spaceSize>>,
                  iterations |-> 0,
                  outcome |-> Undefined]
    /\ UNCHANGED <<callVars, pipelineVars, engine, analyzer, app>>

\* The test of the while condition and one pass of the loop's body, up to
\* the await at its end or to the return of binarySearchAlgorithm
BinarySearchStep ==
    /\ finder # Undefined
    /\ finder.pc = "searching"
    /\ LET midX == Mid(finder.xRange)
           midY == Mid(finder.yRange)
           midZ == Mid(finder.zRange)
           mid == Point(midX, midY, midZ)
           probe == getDistanceToAsteroid(finder, mid)
           Resolved(location, probes) ==
               [finder EXCEPT !.pc = "returned",
                              !.probes = probes,
                              !.outcome = Ok(BinaryResult(finder, location, probes))]
       IN  finder' =
             IF ~(finder.iterations < maxIterationsBinary)
             THEN Resolved(Null, finder.probes)
             ELSE IF probe.ok = FALSE
             THEN [finder EXCEPT !.pc = "rejected", !.outcome = probe]
             ELSE IF BelowTolerance(probe.val)
             THEN Resolved(mid, finder.probes + 1)
             ELSE LET refined == refineSearchRanges(finder, finder.xRange,
                                     finder.yRange, finder.zRange,
                                     midX, midY, midZ)
                      probes == finder.probes + 1 + refined.probes
                  IN  IF /\ refined.xRange[2] - refined.xRange[1] <= 1
                         /\ refined.yRange[2] - refined.yRange[1] <= 1
                         /\ refined.zRange[2] - refined.zRange[1] <= 1
                      THEN LET precise == preciseSearch(finder, refined.xRange,
                                              refined.yRange, refined.zRange)
                           IN  [Resolved(precise.location,
                                         probes + precise.probes)
                                   EXCEPT !.xRange = refined.xRange,
                                          !.yRange = refined.yRange,
                                          !.zRange = refined.zRange]
                      ELSE [finder EXCEPT !.probes = probes,
                                          !.xRange = refined.xRange,
                                          !.yRange = refined.yRange,
                                          !.zRange = refined.zRange,
                                          !.iterations = @ + 1]
    /\ UNCHANGED <<callVars, pipelineVars, engine, analyzer, app>>

\* The engine with an asteroid at one of the positions, or with none
BinaryInit ==
    /\ PipelineUntouched
    /\ call = Undefined
    /\ out = <<>>
    /\ engine = Undefined
    /\ analyzer = Undefined
    /\ app = Undefined
    /\ \/ finder = AsteroidFinderEngine
       \/ \E x, y, z \in BinaryCoordinates :
            finder = [AsteroidFinderEngine EXCEPT
                         !.asteroidLocation = Point(x, y, z)]

BinaryNext ==
    \/ BinarySearchStart
    \/ BinarySearchStep

SpecBinary == BinaryInit /\ [][BinaryNext]_vars

InRange(v, range) == range[1] <= v /\ v <= range[2]

\* C21: with an asteroid at an integer position, binarySearchAlgorithm keeps
\* the asteroid's x, y and z inside xRange, yRange and zRange while it runs,
\* stays within its 50 iterations, and returns the asteroid's position as
\* result.location.
BinarySearchConverges ==
    finder.asteroidLocation # Null =>
        /\ finder.pc # "rejected"
        /\ finder.pc \in {"searching", "returned"} =>
            /\ InRange(finder.asteroidLocation.x, finder.xRange)
            /\ InRange(finder.asteroidLocation.y, finder.yRange)
            /\ InRange(finder.asteroidLocation.z, finder.zRange)
            /\ finder.iterations < maxIterationsBinary
        /\ finder.pc = "returned" =>
            /\ finder.outcome.ok = TRUE
            /\ finder.outcome.val.location = finder.asteroidLocation

\* An asteroid off every midpoint was found by the precise search after the
\* ranges were narrowed several times.
PreciseSearchFoundReached ==
    /\ finder.asteroidLocation # Null
    /\ finder.pc = "returned"
    /\ finder.iterations >= 3
    /\ finder.outcome.val.location = finder.asteroidLocation
    /\ finder.outcome.val.location # Point(Mid(finder.xRange),
                                           Mid(finder.yRange),
                                           Mid(finder.zRange))

(***************************************************************************)
(* BaseRule.matchesRecord called directly                                  *)
(***************************************************************************)
\* Records with a null value, a nested object, arrays, and without some of
\* the fields
MatchRecords ==
    {Obj(<< <<"name", Str("Bob")>>, <<"status", Str("active")>>,
            <<"user", Obj(<< <<"role", Str("admin")>>, <<"level", Num(1)>> >>)>>,
            <<"tags", Arr(<<Str("a"), Str("b")>>)>> >>),
     Obj(<< <<"name", Str("Bob")>>,
            <<"user", Obj(<< <<"level", Num(1)>>, <<"role", Str("admin")>> >>)>>,
            <<"tags", Arr(<<Str("a")>>)>> >>),
     Obj(<< <<"name", Str("Eve")>>, <<"status", Null>>,
            <<"tags", Arr(<<Str("b"), Str("a")>>)>> >>),
     Obj(<< <<"name", Str("Jane")>> >>),
     Obj(<< <<"name", Str("Joe")>>, <<"user", Str("admin")>>,
            <<"tags", Arr(<<>>)>> >>),
     Obj(<< <<"user", Obj(<< <<"role", Null>> >>)>> >>),
     Obj(<<>>)}

\* Criteria specs over the values null, number, string, array and object
MatchCriteria ==
    {Obj(<<>>),
     Obj(<< <<"status", Str("active")>> >>),
     Obj(<< <<"status", Null>> >>),
     Obj(<< <<"user.role", Str("admin")>> >>),
     Obj(<< <<"user.role", Null>> >>),
     Obj(<< <<"user", Obj(<< <<"role", Str("admin")>>, <<"level", Num(1)>> >>)>> >>),
     Obj(<< <<"tags", Arr(<<Str("a"), Str("b")>>)>> >>),
     Obj(<< <<"name", Str("Bob")>>, <<"status", Str("active")>> >>),
     Arr(<<>>),
     Arr(<<Obj(<< <<"name", Str("Jane")>> >>), Obj(<< <<"status", Null>> >>)>>),
     Arr(<<Obj(<< <<"user.role", Str("admin")>>, <<"status", Str("active")>> >>),
           Obj(<< <<"tags", Arr(<<Str("b"), Str("a")>>)>> >>)>>),
     Arr(<<Obj(<< <<"name", Str("Eve")>> >>),
           Obj(<< <<"name", Str("Bob")>>, <<"tags", Arr(<<Str("a")>>)>> >>)>>)}

\* rule.matchesRecord(record, criteria) on a rule instance
MatchesRecordCall ==
    /\ <<"matchesRecord", "last">> \notin DOMAIN out
    /\ Returns(<<"matchesRecord", "last">>,
               matchesRecord(call.data, call.config))
    /\ UNCHANGED <<call, pipelineVars, engineVars>>

\* rule.matchesSingleCriterion(record, criterion) on the i-th element of a
\* criteria array
MatchesSingleCriterionCall(i) ==
    /\ IsArray(call.config)
    /\ i \in 1..Len(call.config.v)
    /\ <<"matchesSingleCriterion", i>> \notin DOMAIN out
    /\ Returns(<<"matchesSingleCriterion", i>>,
               matchesSingleCriterion(call.data, call.config.v[i]))
    /\ UNCHANGED <<call, pipelineVars, engineVars>>

MatchInit ==
    /\ EnginesUntouched
    /\ PipelineUntouched
    /\ call \in {[data |-> record, config |-> criteria] :
                    record \in MatchRecords, criteria \in MatchCriteria}
    /\ out = <<>>

MatchNext ==
    \/ MatchesRecordCall
    \/ \E i \in 1..MaxKeys : MatchesSingleCriterionCall(i)

SpecMatch == MatchInit /\ [][MatchNext]_vars

\* The set of an object's keys
KeySet(o) == {o.v[i][1] : i \in 1..Len(o.v)}

\* The value of an object's key
ValueOf(o, key) == o.v[CHOOSE i \in 1..Len(o.v) : o.v[i][1] = key][2]

\* Structural equality of two values: the same type, and the same value for
\* a primitive, the same elements in the same order for arrays, the same
\* keys with equal values for objects.
RECURSIVE DeepEqual(_, _)
DeepEqual(a, b) ==
    /\ a.t = b.t
    /\ CASE a.t = "array" ->
                /\ Len(a.v) = Len(b.v)
                /\ \A i \in 1..Len(a.v) : DeepEqual(a.v[i], b.v[i])
         [] a.t = "object" ->
                /\ KeySet(a) = KeySet(b)
                /\ \A key \in KeySet(a) : DeepEqual(ValueOf(a, key), ValueOf(b, key))
         [] OTHER -> a = b

\* The record's value at a path: the fields are followed segment by
\* segment; Undefined stands for a record that lacks the field.
RECURSIVE ValueAt(_, _)
ValueAt(value, segments) ==
    IF segments = <<>> THEN value
    ELSE IF value.t = "object" /\ Head(segments) \in KeySet(value)
         THEN ValueAt(ValueOf(value, Head(segments)), Tail(segments))
         ELSE Undefined

\* The record matches every property of the criterion object
MatchesAll(record, criterion) ==
    \A key \in KeySet(criterion) :
        DeepEqual(ValueAt(record, Split(key)), ValueOf(criterion, key))

\* The record lacks a field the criterion object names
LacksField(record, criterion) ==
    \E key \in KeySet(criterion) : ValueAt(record, Split(key)) = Undefined

\* C22: matchesRecord is true for a criteria array exactly when the record
\* matches at least one element, and for a criterion object exactly when the
\* record's value at every key's path is deep-equal to the criterion's value
\* (arrays element by element, in order); a record that lacks a field the
\* criterion names does not match it, whatever the criterion's value.
MatchesAndOr ==
    /\ <<"matchesRecord", "last">> \in DOMAIN out =>
        LET matched == out[<<"matchesRecord", "last">>] IN
        /\ IsArray(call.config) =>
            (matched <=> \E i \in 1..Len(call.config.v) :
                            MatchesAll(call.data, call.config.v[i]))
        /\ ~IsArray(call.config) =>
            /\ matched <=> MatchesAll(call.data, call.config)
            /\ LacksField(call.data, call.config) => ~matched
    /\ \A i \in 1..MaxKeys :
        <<"matchesSingleCriterion", i>> \in DOMAIN out =>
            /\ out[<<"matchesSingleCriterion", i>>]
                  <=> MatchesAll(call.data, call.config.v[i])
            /\ LacksField(call.data, call.config.v[i])
                  => ~out[<<"matchesSingleCriterion", i>>]

\* A record matched a criteria array through its second element only, and
\* that element compares an array value.
SecondElementMatchedReached ==
    /\ IsArray(call.config)
    /\ Len(call.config.v) = 2
    /\ <<"matchesRecord", "last">> \in DOMAIN out
    /\ out[<<"matchesRecord", "last">>] = TRUE
    /\ <<"matchesSingleCriterion", 1>> \in DOMAIN out
    /\ out[<<"matchesSingleCriterion", 1>>] = FALSE
    /\ "tags" \in KeySet(call.config.v[2])
    /\ LacksField(call.data, call.config.v[1])

(***************************************************************************)
(* FunctionalUtils.getNestedProperty called directly                       *)
(***************************************************************************)
\* Objects with and without the fields of the paths, with a null and with a
\* string where the path goes on
NestedObjects ==
    {Obj(<< <<"name", Str("John")>>,
            <<"user", Obj(<< <<"role", Str("admin")>> >>)>> >>),
     Obj(<< <<"name", Null>>, <<"user", Obj(<<>>)>> >>),
     Obj(<< <<"user", Null>> >>),
     Obj(<< <<"user", Str("admin")>> >>),
     Obj(<< <<"user", Obj(<< <<"role", Num(0)>> >>)>> >>),
     Obj(<<>>)}

NestedPaths == {"name", "user.role"}

\* Default values: none, primitives, and objects with and without a key
\* named like the last segment of a path
NestedDefaults ==
    {Undefined, Null, Num(0), Str("none"),
     Obj(<< <<"role", Str("guest")>> >>),
     Obj(<< <<"label", Str("guest")>> >>)}

\* FunctionalUtils.getNestedProperty(obj, path, defaultValue)
GetNestedPropertyCall ==
    /\ <<"getNestedProperty", "last">> \notin DOMAIN out
    /\ Returns(<<"getNestedProperty", "last">>,
               getNestedProperty(call.obj, call.path, call.defaultValue))
    /\ UNCHANGED <<call, pipelineVars, engineVars>>

NestedInit ==
    /\ EnginesUntouched
    /\ PipelineUntouched
    /\ call \in [obj : NestedObjects, path : NestedPaths,
                 defaultValue : NestedDefaults]
    /\ out = <<>>

NestedNext == GetNestedPropertyCall

SpecNested == NestedInit /\ [][NestedNext]_vars

\* C23: getNestedProperty returns the value found by walking the path when
\* every segment exists, and exactly the default, whatever the default is,
\* when a segment is missing or an intermediate value cannot be traversed.
NestedPropertyOrDefault ==
    <<"getNestedProperty", "last">> \in DOMAIN out =>
        LET found == ValueAt(call.obj, Split(call.path)) IN
        out[<<"getNestedProperty", "last">>] =
            IF found # Undefined THEN found ELSE call.defaultValue

(***************************************************************************)
(* TransformRule with a rename map only                                    *)
(***************************************************************************)
RenameRecords ==
    {Obj(<< <<"name", Str("John")>>, <<"email", Str("john2@mail.com")>>,
            <<"status", Str("active")>> >>),
     Obj(<< <<"name", Str("Jane")>>, <<"status", Null>> >>),
     Obj(<< <<"email", Str("bob@mail.com")>> >>)}

\* Rename maps: to new names, of a field some records lack, and of a name
\* to itself
RenameConfigs ==
    {Obj(<< <<"rename", Obj(<< <<"name", Str("fullName")>>,
                               <<"email", Str("emailAddress")>> >>)>> >>),
     Obj(<< <<"rename", Obj(<< <<"status", Str("state")>> >>)>> >>),
     Obj(<< <<"rename", Obj(<< <<"name", Str("name")>> >>)>> >>),
     Obj(<< <<"rename", Obj(<< <<"email", Str("emailAddress")>>,
                               <<"status", Str("status")>> >>)>> >>)}

RenameInit ==
    /\ EnginesUntouched
    /\ PipelineUntouched
    /\ call \in {[data |-> d, config |-> c] :
                    d \in ArraysOf(RenameRecords), c \in RenameConfigs}
    /\ out = <<>>

SpecRename == RenameInit /\ [][TransformNext]_vars

\* C24: after a transform with a rename map, every output record holds, for
\* every pair old -> new whose field old the record has, old's value under
\* new, also when new is old itself; the fields the map does not mention
\* are unchanged.
RenameKeepsValues ==
    ReturnedArray(<<"TransformRule", "execute">>) =>
        LET output == out[<<"TransformRule", "execute">>].val
            rename == ValueOf(call.config, "rename")
            NewNames == {ValueOf(rename, old).v : old \in KeySet(rename)}
        IN  /\ Len(output.v) = Len(call.data.v)
            /\ \A i \in 1..Len(call.data.v) :
                LET record == call.data.v[i] IN
                /\ \A old \in KeySet(rename) \cap KeySet(record) :
                    /\ ValueOf(rename, old).v \in KeySet(output.v[i])
                    /\ ValueOf(output.v[i], ValueOf(rename, old).v)
                          = ValueOf(record, old)
                /\ \A key \in KeySet(record) \ (KeySet(rename) \cup NewNames) :
                    /\ key \in KeySet(output.v[i])
                    /\ ValueOf(output.v[i], key) = ValueOf(record, key)

(***************************************************************************)
(* Include and Exclude with empty criteria                                 *)
(***************************************************************************)
EmptyCriteria == {Obj(<<>>), Arr(<<>>)}

EmptyInit ==
    /\ EnginesUntouched
    /\ PipelineUntouched
    /\ call \in {[data |-> d, config |-> c] :
                    d \in ArraysOf(FilterRecords), c \in EmptyCriteria}
    /\ out = <<>>

EmptyNext ==
    \/ \E cls \in {"IncludeRule", "ExcludeRule"} : ValidateCall(cls)
    \/ \E cls \in {"IncludeRule", "ExcludeRule"} : ExecuteCall(cls)

SpecEmpty == EmptyInit /\ [][EmptyNext]_vars

\* C26: with the empty criterion object {} IncludeRule keeps every record
\* and ExcludeRule removes every record; with the empty criteria array []
\* IncludeRule keeps no record and ExcludeRule keeps every record; validate
\* reports one warning and no error for both.
EmptyCriteriaMeaning ==
    /\ \A cls \in {"IncludeRule", "ExcludeRule"} :
        <<cls, "validate">> \in DOMAIN out =>
            /\ out[<<cls, "validate">>].isValid = TRUE
            /\ out[<<cls, "validate">>].errors = <<>>
            /\ Len(out[<<cls, "validate">>].warnings) = 1
    /\ <<"IncludeRule", "execute">> \in DOMAIN out =>
            out[<<"IncludeRule", "execute">>] =
                Ok(IF IsArray(call.config) THEN Arr(<<>>) ELSE call.data)
    /\ <<"ExcludeRule", "execute">> \in DOMAIN out =>
            out[<<"ExcludeRule", "execute">>] =
                Ok(IF IsArray(call.config) THEN call.data ELSE Arr(<<>>))

\* Both rules validated and executed the empty criterion object on three
\* records.
EmptyObjectExecutedReached ==
    /\ call.config = Obj(<<>>)
    /\ Len(call.data.v) = 3
    /\ {<<"IncludeRule", "validate">>, <<"ExcludeRule", "validate">>,
        <<"IncludeRule", "execute">>, <<"ExcludeRule", "execute">>}
            \subseteq DOMAIN out
    /\ out[<<"ExcludeRule", "execute">>].val = Arr(<<>>)
    /\ out[<<"IncludeRule", "validate">>].warnings
            = <<"Include rule has empty criteria object">>

(***************************************************************************)
(* The counts processData reports                                          *)
(***************************************************************************)
\* C27: a processData call on an array reports the array's length as
\* metadata.inputCount and the length of the result it returns as
\* metadata.outputCount, with outputCount <= inputCount; when the condition
\* names no registered rule the result is deep-equal to the input.
ProcessDataCounts ==
    (Returned /\ op = "processData" /\ IsArray(data)) =>
        /\ ret.metadata.inputCount = Len(data.v)
        /\ ret.metadata.outputCount = Len(ret.result.v)
        /\ ret.metadata.outputCount <= ret.metadata.inputCount
        /\ (condition.t = "object" /\ RegisteredKeys = {})
            => DeepEqual(ret.result, data)

(***************************************************************************)
(* QuestionnaireEngine: validateConfig, getProgress and runs of answers    *)
(***************************************************************************)
\* Configurations handed to validateConfig: the questionnaire's own, small
\* well-formed ones (a chain, two branches that meet again, a question that
\* offers no answer, a question no answer leads to, a question that leads
\* back to itself) and malformed ones
ChainConfig ==
    [startQuestion |-> Str("a"),
     questions |->
      << <<"a", Question("First?", << <<"Yes", Str("b")>>, <<"No", Str("b")>> >>)>>,
         <<"b", Question("Second?", << <<"Done", Null>> >>)>> >>]

DiamondConfig ==
    [startQuestion |-> Str("a"),
     questions |->
      << <<"a", Question("First?", << <<"Yes", Str("b")>>, <<"No", Str("c")>>,
                                      <<"Skip", Null>> >>)>>,
         <<"b", Question("Left?", << <<"Done", Str("d")>> >>)>>,
         <<"c", Question("Right?", << <<"Done", Str("d")>>, <<"Skip", Null>> >>)>>,
         <<"d", Question("Last?", << <<"Yes", Null>>, <<"No", Null>> >>)>> >>]

NoAnswersConfig ==
    [startQuestion |-> Str("a"),
     questions |->
      << <<"a", Question("First?", << <<"Yes", Str("b")>>, <<"No", Null>> >>)>>,
         <<"b", Question("Second?", << >>)>> >>]

UnreachedConfig ==
    [startQuestion |-> Str("a"),
     questions |->
      << <<"a", Question("First?", << <<"Yes", Null>>, <<"No", Null>> >>)>>,
         <<"z", Question("Never asked?", << <<"Done", Null>> >>)>> >>]

LoopConfig ==
    [startQuestion |-> Str("a"),
     questions |->
      << <<"a", Question("Again?", << <<"Yes", Str("a")>>, <<"No", Null>> >>)>> >>]

DanglingConfig ==
    [startQuestion |-> Str("a"),
     questions |->
      << <<"a", Question("First?", << <<"Yes", Str("missing")>>,
                                      <<"No", Null>> >>)>> >>]

NoStartConfig ==
    [startQuestion |-> Undefined,
     questions |->
      << <<"a", Question("First?", << <<"Yes", Null>> >>)>> >>]

WrongStartConfig ==
    [startQuestion |-> Str("q0"),
     questions |->
      << <<"a", Question("", << <<"Yes", Null>> >>)>> >>]

\* A config without the property questions
NoQuestionsConfig == [startQuestion |-> Str("a")]

\* A config whose question is without the property answers
NoAnswersPropertyConfig ==
    [startQuestion |-> Str("a"),
     questions |-> << <<"a", [question |-> Str("First?")]>> >>]

QuestionnaireConfigs ==
    {questionnaireConfig, ChainConfig, DiamondConfig, NoAnswersConfig,
     UnreachedConfig, LoopConfig, DanglingConfig, NoStartConfig,
     WrongStartConfig, NoQuestionsConfig, NoAnswersPropertyConfig}

\* `${value}` for a question id
IdText(value) ==
    IF value.t = "string" THEN value.v
    ELSE IF value = Null THEN "null" ELSE "undefined"

\* config.questions[key] for a key of any type
QuestionAt(config, key) == Lookup(config.questions, IdText(key))

\* The errors validateConfig pushes for the answers of one question
RECURSIVE AnswerErrors(_, _, _, _)
AnswerErrors(config, questionId, answers, i) ==
    IF i > Len(answers) THEN <<>>
    ELSE LET answer == answers[i][1]
             nextQuestionId == answers[i][2]
         IN  (IF nextQuestionId # Null
                 /\ QuestionAt(config, nextQuestionId) = Undefined
              THEN << "Question \"" \o questionId \o "\" answer \"" \o answer
                      \o "\" refers to non-existent question \""
                      \o IdText(nextQuestionId) \o "\"" >>
              ELSE <<>>)
             \o AnswerErrors(config, questionId, answers, i + 1)

\* The errors validateConfig pushes for the questions from the i-th on
RECURSIVE QuestionErrors(_, _)
QuestionErrors(config, i) ==
    IF i > Len(config.questions) THEN <<>>
    ELSE LET questionId == config.questions[i][1]
             questionData == config.questions[i][2]
         IN  (IF questionData.question.t # "string"
                 \/ questionData.question.v = ""
              THEN << "Question \"" \o questionId
                      \o "\" missing or invalid question text" >>
              ELSE <<>>)
             \o (IF "answers" \notin DOMAIN questionData
                 THEN << "Question \"" \o questionId
                         \o "\" missing or invalid answers" >>
                 ELSE AnswerErrors(config, questionId,
                                   questionData.answers, 1))
             \o QuestionErrors(config, i + 1)

\* QuestionnaireEngine.validateConfig(config)
validateConfig(config) ==
    LET noStart ==
            IF config.startQuestion \in {Undefined, Null, Str("")}
            THEN << "Missing 'startQuestion' property" >> ELSE <<>>
    IN  IF "questions" \notin DOMAIN config
        THEN [isValid |-> FALSE,
              errors |-> noStart
                         \o << "Missing or invalid 'questions' property" >>]
        ELSE LET errors ==
                    noStart
                    \o (IF QuestionAt(config, config.startQuestion) = Undefined
                        THEN << "Start question \""
                                \o IdText(config.startQuestion)
                                \o "\" not found in questions" >>
                        ELSE <<>>)
                    \o QuestionErrors(config, 1)
             IN  [isValid |-> Len(errors) = 0, errors |-> errors]

\* The answers a caller passes to an engine: the answers its current
\* question offers, and a string that is no question's answer
RunAnswers(this) ==
    LET currentQuestion == CurrentQuestion(this) IN
    (IF currentQuestion = Undefined THEN {}
     ELSE {currentQuestion.answers[j][1] :
            j \in 1..Len(currentQuestion.answers)})
    \cup {"Other"}

\* QuestionnaireEngine.validateConfig(call.config)
ValidateConfigCall ==
    /\ call # Undefined
    /\ <<"validateConfig", "last">> \notin DOMAIN out
    /\ out' = (<<"validateConfig", "last">> :> validateConfig(call.config))
              @@ out
    /\ UNCHANGED <<call, pipelineVars, engineVars>>

\* new QuestionnaireEngine(call.config), for a config whose questions and
\* answers are objects
NewQuestionnaireEngine ==
    /\ call # Undefined
    /\ engine = Undefined
    /\ "questions" \in DOMAIN call.config
    /\ \A i \in 1..Len(call.config.questions) :
        "answers" \in DOMAIN call.config.questions[i][2]
    /\ engine' = QuestionnaireEngine(call.config)
    /\ UNCHANGED <<callVars, pipelineVars, finder, analyzer, app>>

\* engine.answerQuestion(answer) in a run without goBack.  A run through a
\* question that leads back to itself is followed for one answer more than
\* there are questions.
RunAnswerQuestion(answer) ==
    /\ engine # Undefined
    /\ Len(engine.answers) <= Len(engine.config.questions)
    /\ answer \in RunAnswers(engine)
    /\ LET r == answerQuestion(engine, answer) IN
        /\ engine' = r.this
        /\ out' = (<<"lastAnswerQuestion", "last">> :>
                      [before |-> engine, answer |-> answer,
                       outcome |-> r.outcome])
                  @@ [l \in DOMAIN out \ {<<"getProgress", "last">>}
                        |-> out[l]]
    /\ UNCHANGED <<call, pipelineVars, finder, analyzer, app>>

\* engine.getProgress() and engine.isComplete()
GetProgressCall ==
    /\ engine # Undefined
    /\ out' = (<<"getProgress", "last">> :>
                  [progress |-> getProgress(engine),
                   isComplete |-> isComplete(engine)])
              @@ out
    /\ UNCHANGED <<call, pipelineVars, engineVars>>

\* Every answer of a question of a config, and the string that is none
AllAnswers ==
    UNION {UNION {{config.questions[i][2].answers[j][1] :
                        j \in 1..Len(config.questions[i][2].answers)} :
                    i \in 1..Len(config.questions)} :
            config \in {c \in QuestionnaireConfigs :
                            /\ "questions" \in DOMAIN c
                            /\ \A i \in 1..Len(c.questions) :
                                "answers" \in DOMAIN c.questions[i][2]}}
    \cup {"Other"}

RunInit ==
    /\ PipelineUntouched
    /\ EnginesUntouched
    /\ out = <<>>
    /\ \E config \in QuestionnaireConfigs : call = [config |-> config]

RunNext ==
    \/ ValidateConfigCall
    \/ NewQuestionnaireEngine
    \/ \E answer \in AllAnswers : RunAnswerQuestion(answer)
    \/ GetProgressCall

SpecRun == RunInit /\ [][RunNext]_vars

\* The ids an answer of the question id leads to
NextIds(config, id) ==
    LET questionData == Lookup(config.questions, id) IN
    IF questionData = Undefined THEN {}
    ELSE {questionData.answers[i][2].v : i \in
            {j \in 1..Len(questionData.answers) :
                questionData.answers[j][2] # Null}}

\* The ids reached from ids by at most n further answers
RECURSIVE ReachedFrom(_, _, _)
ReachedFrom(config, ids, n) ==
    IF n = 0 THEN ids
    ELSE ReachedFrom(config,
                     ids \cup UNION {NextIds(config, id) : id \in ids}, n - 1)

\* No question is reached again from one of its own answers
Acyclic(config) ==
    \A i \in 1..Len(config.questions) :
        LET id == config.questions[i][1] IN
        id \notin ReachedFrom(config, NextIds(config, id),
                              Len(config.questions))

\* validateConfig accepted the config and its question graph is acyclic
AcceptedAcyclic ==
    /\ <<"validateConfig", "last">> \in DOMAIN out
    /\ out[<<"validateConfig", "last">>].isValid = TRUE
    /\ Acyclic(call.config)

\* num / den <= n
AtMost(fraction, n) == fraction.num <= n * fraction.den

\* C29: for a config validateConfig accepts and whose question graph is
\* acyclic, a run of valid answers without goBack reaches isComplete() after
\* at most as many answers as there are questions: the engine never holds
\* more answers than that, and while it is not complete the current question
\* offers an answer that carries the run on.  getProgress() is within
\* 0..100, at most 95 while incomplete, and 100 exactly when complete.
RunsReachComplete ==
    (engine # Undefined /\ AcceptedAcyclic) =>
        /\ Len(engine.answers) <= Len(engine.config.questions)
        /\ ~isComplete(engine) =>
            \E answer \in RunAnswers(engine) :
                answerQuestion(engine, answer).outcome.ok = TRUE
        /\ <<"getProgress", "last">> \in DOMAIN out =>
            LET g == out[<<"getProgress", "last">>] IN
            /\ g.progress.num >= 0
            /\ AtMost(g.progress, 100)
            /\ ~g.isComplete => AtMost(g.progress, 95)
            /\ g.isComplete <=> g.progress = [num |-> 100, den |-> 1]

(***************************************************************************)
(* PathAnalyzerEngine: analyzeAllPaths                                     *)
(*                                                                         *)
(* A path is the sequence of its steps; the step {[question]: answer} is   *)
(* the pair <<question, answer>>.  averageLength is kept in tenths.        *)
(***************************************************************************)
\* new PathAnalyzerEngine(config): the fields the constructor sets
PathAnalyzerEngine(config) ==
    [config |-> config,
     allPaths |-> <<>>,
     statistics |-> [totalPaths |-> 0, averageTenths |-> 0,
                     maxLength |-> 0, minLength |-> 0]]

\* generatePaths(questionId, currentPath): the paths it pushes, in order
RECURSIVE generatePaths(_, _, _)
RECURSIVE ForEachAnswer(_, _, _, _)
generatePaths(config, questionId, currentPath) ==
    IF questionId = Null THEN << currentPath >>
    ELSE LET question == QuestionOf(config, questionId) IN
         IF question = Undefined THEN <<>>
         ELSE ForEachAnswer(config, question, currentPath, 1)

\* Object.entries(question.answers).forEach(...) from the i-th answer on
ForEachAnswer(config, question, currentPath, i) ==
    IF i > Len(question.answers) THEN <<>>
    ELSE LET answer == question.answers[i][1]
             nextQuestionId == question.answers[i][2]
             newPathStep == <<question.question.v, answer>>
             newPath == Append(currentPath, newPathStep)
         IN  generatePaths(config, nextQuestionId, newPath)
             \o ForEachAnswer(config, question, currentPath, i + 1)

\* The sum of the lengths of the paths
RECURSIVE SumLengths(_)
SumLengths(paths) ==
    IF Len(paths) = 0 THEN 0
    ELSE Len(paths[1]) + SumLengths(Tail(paths))

\* calculateStatistics() for this.allPaths = allPaths.  Math.round of the
\* non-negative quotient 10 * sum / count is its floor after adding a half.
calculateStatistics(allPaths) ==
    IF Len(allPaths) = 0
    THEN [totalPaths |-> 0, averageTenths |-> 0,
          maxLength |-> 0, minLength |-> 0]
    ELSE LET lengths == {Len(allPaths[i]) : i \in 1..Len(allPaths)}
         IN  [totalPaths |-> Len(allPaths),
              averageTenths |->
                  (20 * SumLengths(allPaths) + Len(allPaths))
                      \div (2 * Len(allPaths)),
              maxLength |-> CHOOSE n \in lengths : \A k \in lengths : k <= n,
              minLength |-> CHOOSE n \in lengths : \A k \in lengths : k >= n]

\* analyzeAllPaths without this.allPaths = []
analyzeAllPathsKeepingPaths(this) ==
    LET allPaths == this.allPaths
                    \o generatePaths(this.config, this.config.startQuestion,
                                     <<>>)
        statistics == calculateStatistics(allPaths)
    IN  [returned |-> [paths |-> [number |-> Len(allPaths),
                                  list |-> allPaths],
                       statistics |-> statistics],
         this |-> [this EXCEPT !.allPaths = allPaths,
                               !.statistics = statistics]]

\* analyzeAllPaths(): the value returned and the analyzer's fields afterwards
analyzeAllPaths(this) ==
    LET allPaths == generatePaths(this.config, this.config.startQuestion,
                                  <<>>)
        statistics == calculateStatistics(allPaths)
    IN  [returned |-> [paths |-> [number |-> Len(allPaths),
                                  list |-> allPaths],
                       statistics |-> statistics],
         this |-> [this EXCEPT !.allPaths = allPaths,
                               !.statistics = statistics]]

\* Some question reached from the start question is reached again from one
\* of its own answers: generatePaths then calls itself without end
RecursesForever(config) ==
    /\ config.startQuestion.t = "string"
    /\ \E id \in ReachedFrom(config, {config.startQuestion.v},
                             Len(config.questions)) :
        id \in ReachedFrom(config, NextIds(config, id),
                           Len(config.questions))

\* new PathAnalyzerEngine(call.config), for a config whose questions and
\* answers are objects
NewPathAnalyzerEngine ==
    /\ call # Undefined
    /\ analyzer = Undefined
    /\ "questions" \in DOMAIN call.config
    /\ \A i \in 1..Len(call.config.questions) :
        "answers" \in DOMAIN call.config.questions[i][2]
    /\ analyzer' = PathAnalyzerEngine(call.config)
    /\ UNCHANGED <<callVars, pipelineVars, engine, finder, app>>

\* analyzer.analyzeAllPaths().  The call returns only when the recursion of
\* generatePaths ends.
AnalyzeAllPaths ==
    /\ analyzer # Undefined
    /\ ~RecursesForever(analyzer.config)
    /\ LET r == analyzeAllPaths(analyzer) IN
        /\ analyzer' = r.this
        /\ out' = (<<"analyzeAllPaths", "last">> :> r.returned) @@ out
    /\ UNCHANGED <<call, pipelineVars, engine, finder, app>>

PathsNext ==
    \/ ValidateConfigCall
    \/ NewQuestionnaireEngine
    \/ \E answer \in AllAnswers : RunAnswerQuestion(answer)
    \/ NewPathAnalyzerEngine
    \/ AnalyzeAllPaths

SpecPaths == RunInit /\ [][PathsNext]_vars

\* The answers stored by the runs of valid answerQuestion calls that take
\* the engine this to isComplete(), followed for at most n answers
RECURSIVE CompletionRuns(_, _)
CompletionRuns(this, n) ==
    IF isComplete(this) THEN {this.answers}
    ELSE IF n = 0 THEN {}
    ELSE UNION {CompletionRuns(answerQuestion(this, answer).this, n - 1) :
                  answer \in {a \in RunAnswers(this) :
                                answerQuestion(this, a).outcome.ok = TRUE}}

\* The question/answer pairs of the answers an engine stored, in order
PairsOf(answers) ==
    [i \in 1..Len(answers) |-> <<answers[i].question.v, answers[i].answer>>]

\* C25: on an acyclic config validateConfig accepts, analyzeAllPaths lists
\* exactly the completion scenarios of QuestionnaireEngine: the listed
\* paths are the question/answer pairs of the runs of answers that take a
\* new engine from startQuestion to isComplete(), one path per run, each
\* non-empty, none listed twice; paths.number is the length of the list and
\* minLength <= averageLength <= maxLength.
PathsAreCompletionScenarios ==
    (AcceptedAcyclic /\ <<"analyzeAllPaths", "last">> \in DOMAIN out) =>
        LET r == out[<<"analyzeAllPaths", "last">>]
            list == r.paths.list
            runs == CompletionRuns(QuestionnaireEngine(call.config),
                                   Len(call.config.questions))
        IN  /\ {list[i] : i \in 1..Len(list)} = {PairsOf(run) : run \in runs}
            /\ Cardinality(runs) = Len(list)
            /\ \A i \in 1..Len(list) : Len(list[i]) > 0
            /\ \A i, j \in 1..Len(list) : list[i] = list[j] => i = j
            /\ r.paths.number = Len(list)
            /\ 10 * r.statistics.minLength <= r.statistics.averageTenths
            /\ r.statistics.averageTenths <= 10 * r.statistics.maxLength
            /\ (engine # Undefined /\ isComplete(engine)) =>
                \E i \in 1..Len(list) : list[i] = PairsOf(engine.answers)

\* The paths of the questionnaire's own config were listed, lengths differ,
\* and an engine completed a run of four answers that is among them.
LongestRunListedReached ==
    /\ AcceptedAcyclic
    /\ <<"analyzeAllPaths", "last">> \in DOMAIN out
    /\ out[<<"analyzeAllPaths", "last">>].statistics.minLength
        < out[<<"analyzeAllPaths", "last">>].statistics.maxLength
    /\ out[<<"analyzeAllPaths", "last">>].paths.number > 30
    /\ engine # Undefined
    /\ isComplete(engine)
    /\ Len(engine.answers) = 4

(***************************************************************************)
(* AsteroidFinderApp: Generate, Start Search and Reset clicks and the      *)
(* asynchronous search                                                     *)
(*                                                                         *)
(* The app's engine is the variable finder.  searches counts the calls of  *)
(* startSearch that have passed its checks and not yet run its finally     *)
(* block; algorithm is the local of the call in progress ("none" when      *)
(* there is none); notification is the message last passed to              *)
(* showNotification.                                                       *)
(***************************************************************************)
\* new AsteroidFinderApp(): the fields the constructor sets
AsteroidFinderApp ==
    [isSearching |-> FALSE,
     currentResult |-> Null,
     algorithm |-> "none",
     searches |-> 0,
     notification |-> ""]

\* The coordinates generateAsteroid picks from: the centre, a point one step
\* of the gradient search away from it, and a point nearer than a step
AppCoordinates == {48, 50, 55}

\* The values of the radio input "algorithm"
Algorithms == {"binary", "gradient", "other"}

\* generateNewAsteroid without the check of isSearching
generateNewAsteroidWhileSearching(this, finderEngine, location) ==
    [app |-> [this EXCEPT !.notification = "New asteroid generated!"],
     engine |-> [finderEngine EXCEPT !.asteroidLocation = location]]

\* generateNewAsteroid(), with the location engine.generateAsteroid() picks:
\* the app's and the engine's fields afterwards
generateNewAsteroid(this, finderEngine, location) ==
    IF this.isSearching
    THEN [app |-> [this EXCEPT !.notification =
                      "Cannot generate asteroid during active search"],
          engine |-> finderEngine]
    ELSE [app |-> [this EXCEPT !.notification = "New asteroid generated!"],
          engine |-> [finderEngine EXCEPT !.asteroidLocation = location]]

\* startSearch() up to its first await, with the algorithm selected
startSearch(this, finderEngine, algorithm) ==
    IF this.isSearching
    THEN [this EXCEPT !.notification = "Search already in progress"]
    ELSE IF finderEngine.asteroidLocation = Null
    THEN [this EXCEPT !.notification = "Please generate an asteroid first"]
    ELSE IF algorithm \in {"binary", "gradient"}
    THEN [this EXCEPT !.isSearching = TRUE,
                      !.algorithm = algorithm,
                      !.searches = @ + 1]
    ELSE \* the switch throws inside try: catch and finally run at once
         [this EXCEPT !.isSearching = FALSE,
                      !.notification =
                        "Search failed: Unknown algorithm selected"]

\* resetMission(): the app's and the engine's fields afterwards
resetMission(this, finderEngine) ==
    IF this.isSearching
    THEN [app |-> [this EXCEPT !.notification =
                      "Cannot reset during active search"],
          engine |-> finderEngine]
    ELSE [app |-> [this EXCEPT !.currentResult = Null,
                               !.notification = "Mission reset"],
          engine |-> [finderEngine EXCEPT !.probes = 0]]

\* A click on Generate
ClickGenerate(x, y, z) ==
    /\ app # Undefined
    /\ LET r == generateNewAsteroid(app, finder, Point(x, y, z)) IN
        /\ app' = r.app
        /\ finder' = r.engine
    /\ UNCHANGED <<callVars, pipelineVars, engine, analyzer>>

\* A click on Start Search
ClickStartSearch(algorithm) ==
    /\ app # Undefined
    /\ app' = startSearch(app, finder, algorithm)
    /\ UNCHANGED <<callVars, pipelineVars, engine, finder, analyzer>>

\* A click on Reset
ClickReset ==
    /\ app # Undefined
    /\ LET r == resetMission(app, finder) IN
        /\ app' = r.app
        /\ finder' = r.engine
    /\ UNCHANGED <<callVars, pipelineVars, engine, analyzer>>

\* runBinarySearch() after its timeout: engine.binarySearchAlgorithm() starts
RunBinarySearch ==
    /\ app # Undefined
    /\ app.searches > 0
    /\ app.algorithm = "binary"
    /\ BinarySearchStart

\* runGradientDescent() after its timeout:
\* engine.gradientDescentAlgorithm() starts
RunGradientDescent ==
    /\ app # Undefined
    /\ app.searches > 0
    /\ app.algorithm = "gradient"
    /\ GradientDescentStart

\* engine.binarySearchAlgorithm() goes on after an await
BinarySearchContinues ==
    /\ app # Undefined
    /\ app.algorithm = "binary"
    /\ BinarySearchStep

\* engine.gradientDescentAlgorithm() goes on after an await
GradientDescentContinues ==
    /\ app # Undefined
    /\ app.algorithm = "gradient"
    /\ \/ GradientDescentStep
       \/ GradientDescentReturn

\* The promise of the algorithm is settled: the rest of startSearch's try
\* block or its catch block runs, then its finally block.  The algorithm's
\* locals are gone.
SearchSettles ==
    /\ app # Undefined
    /\ app.searches > 0
    /\ finder.pc \in {"returned", "rejected"}
    /\ app' = [app EXCEPT
                 !.currentResult =
                    IF finder.outcome.ok = TRUE THEN finder.outcome.val ELSE @,
                 !.notification =
                    IF finder.outcome.ok = TRUE THEN "Search complete!"
                    ELSE "Search failed: " \o finder.outcome.err,
                 !.isSearching = FALSE,
                 !.algorithm = "none",
                 !.searches = @ - 1]
    /\ finder' = [AsteroidFinderEngine EXCEPT
                     !.asteroidLocation = finder.asteroidLocation,
                     !.probes = finder.probes]
    /\ UNCHANGED <<callVars, pipelineVars, engine, analyzer>>

AppInit ==
    /\ PipelineUntouched
    /\ call = Undefined
    /\ out = <<>>
    /\ engine = Undefined
    /\ analyzer = Undefined
    /\ finder = AsteroidFinderEngine
    /\ app = AsteroidFinderApp

\* A click on Generate or on Reset
GenerateOrReset ==
    \/ \E x, y \in AppCoordinates : ClickGenerate(x, y, spaceSize \div 2)
    \/ ClickReset

AppNext ==
    \/ \E x, y \in AppCoordinates : ClickGenerate(x, y, spaceSize \div 2)
    \/ \E algorithm \in Algorithms : ClickStartSearch(algorithm)
    \/ ClickReset
    \/ RunBinarySearch
    \/ RunGradientDescent
    \/ BinarySearchContinues
    \/ GradientDescentContinues
    \/ SearchSettles

SpecApp == AppInit /\ [][AppNext]_vars

\* The engine's asteroid location and probes
LocationAndProbes(this) == <<this.asteroidLocation, this.probes>>

\* C30: under every interleaving of the clicks with the search, at most one
\* search is in progress, isSearching is true exactly while one is and so is
\* false again once it has ended, by completing or by throwing; and a click
\* on Generate or Reset while isSearching is true changes neither the
\* asteroid location nor the engine's probes.
OneSearchAtATime ==
    /\ [](/\ app.searches <= 1
          /\ app.isSearching = TRUE <=> app.searches = 1)
    /\ [][(app.isSearching = TRUE /\ GenerateOrReset)
            => LocationAndProbes(finder') = LocationAndProbes(finder)]_vars

\* Generate was clicked while a search had deployed probes, and was refused
GenerateRefusedReached ==
    /\ app.isSearching = TRUE
    /\ app.searches = 1
    /\ finder.probes > 0
    /\ finder.pc = "searching"
    /\ app.notification = "Cannot generate asteroid during active search"
    /\ app.currentResult # Null

====
